---- MODULE Spec2Model ----
(***************************************************************************)
(* PPPoE link layer of mpd (src/src/pppoe.c): the per-link session state   *)
(* machine, the parent-interface registry PppoeIfs, the per-parent list of *)
(* listening services, the control-message handler and the incoming        *)
(* request handler.                                                        *)
(*                                                                         *)
(* The program is single threaded: every handler runs to completion, so    *)
(* every action below is one whole handler.  A handler is written as a     *)
(* composition of operators on a record S = [g, p, eth, o, crash]: g the   *)
(* link table gLinks, p the registry PppoeIfs, eth gNgEtherLoaded, o the   *)
(* graph operations and host notifications the handler has issued so far,  *)
(* in order, crash whether the handler has dereferenced a NULL pointer or  *)
(* hit assert(0) (the process is then gone).                               *)
(***************************************************************************)
EXTENDS Integers, Sequences, FiniteSets, TLC

\* Bounds of the model.
MaxLinks == 3        \* slots of gLinks
MaxParents == 2      \* slots of PppoeIfs (PPPOE_MAXPARENTIFS, scaled down)
MaxUps == 2          \* PhysUp calls counted per session (saturating)
MaxCmds == 3         \* configuration commands issued in one run

\* Program constants.
PPPOE_MRU == 1492
NULL == -1

LinkIds == 0 .. (MaxLinks - 1)
Slots == 0 .. (MaxParents - 1)

\* Strings the code edits character by character are sequences of characters.
UndefinedStr == <<"u", "n", "d", "e", "f", "i", "n", "e", "d">>
Ifaces == { <<"e", "0">>, <<"e", ".", "1">> }
Services == { "*", "isp" }
ZeroMac == "00:00:00:00:00:00"
Macs == { "02:00:00:00:00:01" }
MaxPayloads == { 1491, 1500, 1510 }
MaxpReplies == { 1492, 1500 }
ETHER_MAX_LEN == 1518

VARIABLES
    gLinks,          \* link table: per slot the host's link and its pppoeinfo
    PppoeIfs,        \* parent interface registry
    gNgEtherLoaded,  \* process-wide: ng_ether node type known to be present
    crashed,         \* the process has died (NULL dereference or assert(0))
    nUp,             \* per link: PhysUp calls since the link last left DOWN
    nCmd,            \* configuration commands issued so far
    response,        \* a received discovery frame, for the tag parsing alone
    parsed           \* what PppoeListenEvent has read out of response

vars == <<gLinks, PppoeIfs, gNgEtherLoaded, crashed, nUp, nCmd, response, parsed>>

----------------------------------------------------------------------------
\* Records

NoList == [slot |-> NULL, session |-> ""]

\* struct pppoeinfo as PppoeInit leaves it (Malloc returns zeroed memory).
PppoeInit ==
    [ iface |-> UndefinedStr,
      path |-> UndefinedStr \o <<":">>,
      hook |-> "undefined",
      session |-> "*",
      max_payload |-> 0,
      peeraddr |-> ZeroMac,
      real_session |-> "*",
      agent_cid |-> "",
      agent_rid |-> "",
      incoming |-> FALSE,
      opened |-> FALSE,
      mp_reply |-> FALSE,
      PIf |-> NULL,
      list |-> NoList,
      connectTimer |-> FALSE ]

\* A slot of gLinks: the host's struct linkst fields the PPPoE code reads.
NewLink(tmpl, stay) ==
    [ present |-> TRUE, tmpl |-> tmpl, stay |-> stay, state |-> "DOWN",
      incomingOpt |-> FALSE, info |-> PppoeInit ]

NoLink ==
    [ present |-> FALSE, tmpl |-> FALSE, stay |-> FALSE, state |-> "DOWN",
      incomingOpt |-> FALSE, info |-> PppoeInit ]

\* A slot of the static array PppoeIfs (zero initialised).
ZeroIf ==
    [ ifnodepath |-> <<>>, node_id |-> 0, refs |-> 0, csock |-> 0, dsock |-> 0,
      registered |-> FALSE, list |-> [s \in Services |-> 0] ]

Op(op, link, slot, arg, ok) ==
    [op |-> op, link |-> link, slot |-> slot, arg |-> arg, ok |-> ok]

Emit(S, e) == [S EXCEPT !.o = Append(@, e)]
Crash(S) == [S EXCEPT !.crash = TRUE]

\* The handler's view of the program state when it starts.
Cur == [g |-> gLinks, p |-> PppoeIfs, eth |-> gNgEtherLoaded, o |-> <<>>, crash |-> FALSE]

Min(a, b) == IF a < b THEN a ELSE b

RECURSIVE CountOps(_, _, _)
CountOps(o, op, l) ==
    IF o = <<>> THEN 0
    ELSE (IF Head(o).op = op /\ Head(o).link = l THEN 1 ELSE 0) + CountOps(Tail(o), op, l)

\* The state a handler leaves behind.  A crashed process leaves none: the
\* last state is kept and no further handler runs.
Finish(S) ==
    IF S.crash
    THEN /\ crashed' = TRUE
         /\ UNCHANGED <<gLinks, PppoeIfs, gNgEtherLoaded, nUp, response, parsed>>
    ELSE /\ UNCHANGED <<response, parsed>>
         /\ gLinks' = S.g
         /\ PppoeIfs' = S.p
         /\ gNgEtherLoaded' = S.eth
         /\ crashed' = FALSE
         /\ nUp' = [k \in LinkIds |->
                      IF S.g[k].state = "DOWN" THEN 0
                      ELSE Min(MaxUps, nUp[k] + CountOps(S.o, "PhysUp", k))]

----------------------------------------------------------------------------
\* Host notifications (the link framework's PhysUp, PhysDown, PhysIncoming).
PhysUp(S, l) == Emit(S, Op("PhysUp", l, NULL, "", TRUE))
PhysDown(S, l, reason) == Emit(S, Op("PhysDown", l, NULL, reason, TRUE))
PhysIncoming(S, l) == Emit(S, Op("PhysIncoming", l, NULL, "", TRUE))

\* PhysIsBusy of the link framework, as far as this layer decides it.
PhysIsBusy(S, l) == S.g[l].state # "DOWN"

----------------------------------------------------------------------------
\* set iface: the node path is the interface name with '.' and ':' replaced
\* by '_' and a ':' appended.
MkPath(iface) ==
    [i \in 1 .. Len(iface) |-> IF iface[i] \in {".", ":"} THEN "_" ELSE iface[i]]
        \o <<":">>

\* Descriptors NgMkSockNode returns for a slot.
CsockOf(slot) == 3 + 2 * slot
DsockOf(slot) == 4 + 2 * slot

\* CreatePppoeNode on slot i, with outcome cf:
\*   "ok"        every step succeeds
\*   "ifup"      IfaceSetFlag fails
\*   "mksock"    NgMkSockNode fails
\*   "kldload"   ng_ether is absent and kldload fails: assert(0)
\*   "graph"     a graph step after the sockets exist fails (type or hook
\*               query, foreign node on the orphans hook, MKPEER, node id)
CreateOutcomes == {"ok", "ifup", "mksock", "kldload", "graph"}

CreateOk(S, cf) == cf = "ok" \/ (cf = "kldload" /\ S.eth)

CreatePppoeNode(S, i, cf) ==
    IF cf \in {"ifup", "mksock"} THEN S
    ELSE LET S1 == [S EXCEPT !.p[i].csock = CsockOf(i), !.p[i].dsock = DsockOf(i)]
         IN IF cf = "kldload" /\ ~S.eth THEN Crash(S1)
            ELSE LET S2 == [S1 EXCEPT !.eth = TRUE]
                 IN IF cf = "graph" THEN S2
                    ELSE [S2 EXCEPT !.p[i].node_id = i + 1,
                                    !.p[i].registered = TRUE]

\* PppoeGetNode
FreeSlots(S) == {i \in Slots : S.p[i].ifnodepath = <<>>}
MatchSlots(S, path) == {i \in Slots : S.p[i].ifnodepath = path}
MinOf(A) == CHOOSE a \in A : \A b \in A : a <= b
MaxOf(A) == CHOOSE a \in A : \A b \in A : b <= a

\* PppoeGetNode without the search for an entry of the same path: every
\* acquisition creates a node in a free slot.
PppoeGetNodeNoMatch(S, l, cf) ==
    LET pi == S.g[l].info
        free == FreeSlots(S)
    IN IF S.crash \/ pi.PIf # NULL THEN S
       ELSE IF pi.path = UndefinedStr \o <<":">> THEN S
       ELSE IF free = {} THEN S
       ELSE LET i == MaxOf(free)
                S1 == CreatePppoeNode(S, i, cf)
            IN IF S1.crash THEN S1
               ELSE IF CreateOk(S, cf)
                    THEN [S1 EXCEPT !.p[i].ifnodepath = pi.path,
                                    !.p[i].refs = 1,
                                    !.g[l].info.PIf = i]
                    ELSE S1

PppoeGetNode(S, l, cf) ==
    LET pi == S.g[l].info
        match == MatchSlots(S, pi.path)
        \* the scan stops at the first match; free is the last empty slot seen
        free == IF match = {} THEN FreeSlots(S)
                ELSE {i \in FreeSlots(S) : i < MinOf(match)}
    IN IF S.crash \/ pi.PIf # NULL THEN S
       ELSE IF pi.path = UndefinedStr \o <<":">> THEN S
       ELSE IF match # {}
            THEN [S EXCEPT !.p[MinOf(match)].refs = @ + 1,
                           !.g[l].info.PIf = MinOf(match)]
       ELSE IF free = {} THEN S
       ELSE LET i == MaxOf(free)
                S1 == CreatePppoeNode(S, i, cf)
            IN IF S1.crash THEN S1
               ELSE IF CreateOk(S, cf)
                    THEN [S1 EXCEPT !.p[i].ifnodepath = pi.path,
                                    !.p[i].refs = 1,
                                    !.g[l].info.PIf = i]
                    ELSE S1

\* PppoeReleaseNode that clears the slot on every release, also while other
\* links still hold it.
PppoeReleaseNodeAlwaysClears(S, l) ==
    LET i == S.g[l].info.PIf
    IN IF S.crash \/ i = NULL THEN S
       ELSE [S EXCEPT !.p[i].refs = @ - 1,
                      !.p[i].ifnodepath = <<>>,
                      !.p[i].node_id = 0,
                      !.p[i].registered = FALSE,
                      !.p[i].csock = -1,
                      !.p[i].dsock = -1,
                      !.g[l].info.PIf = NULL]

\* PppoeReleaseNode that drops the link's handle and leaves refs as it is.
PppoeReleaseNodeKeepsRefs(S, l) ==
    LET i == S.g[l].info.PIf
    IN IF S.crash \/ i = NULL THEN S
       ELSE [S EXCEPT !.g[l].info.PIf = NULL]

\* PppoeReleaseNode
PppoeReleaseNode(S, l) ==
    LET i == S.g[l].info.PIf
    IN IF S.crash \/ i = NULL THEN S
       ELSE IF S.p[i].refs - 1 = 0
            THEN [S EXCEPT !.p[i].refs = 0,
                           !.p[i].ifnodepath = <<>>,
                           !.p[i].node_id = 0,
                           !.p[i].registered = FALSE,
                           !.p[i].csock = -1,
                           !.p[i].dsock = -1,
                           !.g[l].info.PIf = NULL]
            ELSE [S EXCEPT !.p[i].refs = @ - 1,
                           !.g[l].info.PIf = NULL]

\* PppoeListen; lf = 1: the NGM_CONNECT of the listen hook fails,
\* lf = 2: the NGM_PPPOE_LISTEN fails, otherwise both succeed.
PppoeListen(S, l, lf) ==
    LET pi == S.g[l].info
        i == pi.PIf
        s == pi.session
    IN IF S.crash \/ pi.list # NoList \/ i = NULL THEN S
       ELSE IF S.p[i].list[s] > 0
            THEN [S EXCEPT !.p[i].list[s] = @ + 1,
                           !.g[l].info.list = [slot |-> i, session |-> s]]
       ELSE LET S1 == [S EXCEPT !.p[i].list[s] = 1,
                                !.g[l].info.list = [slot |-> i, session |-> s]]
                S2 == Emit(S1, Op("NGM_CONNECT_listen", l, i, s, lf # 1))
            IN IF lf = 1 THEN S2
               ELSE Emit(S2, Op("NGM_PPPOE_LISTEN", l, i, s, lf # 2))

\* PppoeUnListen.  Reading a list entry that was freed, or unlinking an
\* entry from a list that does not hold it, ends the process.
PppoeUnListen(S, l) ==
    LET pi == S.g[l].info
        e == pi.list
    IN IF S.crash \/ e = NoList THEN S
       ELSE IF S.p[e.slot].list[e.session] = 0 THEN Crash(S)
       ELSE IF S.p[e.slot].list[e.session] - 1 > 0
            THEN [S EXCEPT !.p[e.slot].list[e.session] = @ - 1,
                           !.g[l].info.list = NoList]
       ELSE IF pi.PIf = NULL \/ pi.PIf # e.slot THEN Crash(S)
       ELSE [ Emit(S, Op("NgFuncDisconnect_listen", l, pi.PIf, e.session, TRUE))
                EXCEPT !.p[e.slot].list[e.session] = 0,
                       !.g[l].info.list = NoList ]

\* PppoeNodeUpdate
PppoeNodeUpdate(S, l, cf, lf) ==
    IF S.crash THEN S
    ELSE IF S.g[l].info.list = NoList
         THEN IF S.g[l].incomingOpt
              THEN PppoeListen(PppoeGetNode(S, l, cf), l, lf)
              ELSE S
         ELSE IF ~S.g[l].incomingOpt
              THEN LET S1 == PppoeUnListen(S, l)
                   IN IF ~S1.crash /\ S1.g[l].state = "DOWN"
                      THEN PppoeReleaseNode(S1, l)
                      ELSE S1
              ELSE S

\* PppoeInst that copies the template's listener handle without counting it.
PppoeInstNoListRef(S, l, lt) ==
    LET pi == S.g[lt].info
        S1 == [S EXCEPT !.g[l].info = pi]
    IN IF pi.PIf # NULL THEN [S1 EXCEPT !.p[pi.PIf].refs = @ + 1] ELSE S1

\* PppoeInst: link l becomes a copy of template lt.
PppoeInst(S, l, lt) ==
    LET pi == S.g[lt].info
        S1 == [S EXCEPT !.g[l].info = pi]
        S2 == IF pi.PIf # NULL THEN [S1 EXCEPT !.p[pi.PIf].refs = @ + 1] ELSE S1
    IN IF pi.list # NoList
       THEN [S2 EXCEPT !.p[pi.list.slot].list[pi.list.session] = @ + 1]
       ELSE S2

\* LinkInst of the link framework: a new link in the first empty slot of
\* gLinks, copied from the template, neither template nor static.
LinkInst(S, l, lt) ==
    PppoeInst([S EXCEPT !.g[l] = [S.g[lt] EXCEPT !.tmpl = FALSE, !.stay = FALSE]], l, lt)

----------------------------------------------------------------------------
\* PppoeDoClose with one clean-up statement left out: the agent ids, the
\* real service name, the TimerStop.
PppoeDoCloseKeepsAgent(S, l) ==
    IF S.crash \/ S.g[l].state = "DOWN" THEN S
    ELSE IF S.g[l].info.PIf = NULL THEN Crash(S)
    ELSE [ Emit(S, Op("NgFuncDisconnect", l, S.g[l].info.PIf, "session_hook", TRUE))
             EXCEPT !.g[l].state = "DOWN",
                    !.g[l].info.connectTimer = FALSE,
                    !.g[l].info.incoming = FALSE,
                    !.g[l].info.peeraddr = ZeroMac,
                    !.g[l].info.real_session = "",
                    !.g[l].info.mp_reply = FALSE ]

PppoeDoCloseKeepsService(S, l) ==
    IF S.crash \/ S.g[l].state = "DOWN" THEN S
    ELSE IF S.g[l].info.PIf = NULL THEN Crash(S)
    ELSE [ Emit(S, Op("NgFuncDisconnect", l, S.g[l].info.PIf, "session_hook", TRUE))
             EXCEPT !.g[l].state = "DOWN",
                    !.g[l].info.connectTimer = FALSE,
                    !.g[l].info.incoming = FALSE,
                    !.g[l].info.peeraddr = ZeroMac,
                    !.g[l].info.agent_cid = "",
                    !.g[l].info.agent_rid = "",
                    !.g[l].info.mp_reply = FALSE ]

PppoeDoCloseKeepsTimer(S, l) ==
    IF S.crash \/ S.g[l].state = "DOWN" THEN S
    ELSE IF S.g[l].info.PIf = NULL THEN Crash(S)
    ELSE [ Emit(S, Op("NgFuncDisconnect", l, S.g[l].info.PIf, "session_hook", TRUE))
             EXCEPT !.g[l].state = "DOWN",
                    !.g[l].info.incoming = FALSE,
                    !.g[l].info.peeraddr = ZeroMac,
                    !.g[l].info.real_session = "",
                    !.g[l].info.agent_cid = "",
                    !.g[l].info.agent_rid = "",
                    !.g[l].info.mp_reply = FALSE ]

\* PppoeDoClose
PppoeDoClose(S, l) ==
    IF S.crash \/ S.g[l].state = "DOWN" THEN S
    ELSE IF S.g[l].info.PIf = NULL THEN Crash(S)
    ELSE [ Emit(S, Op("NgFuncDisconnect", l, S.g[l].info.PIf, "session_hook", TRUE))
             EXCEPT !.g[l].state = "DOWN",
                    !.g[l].info.connectTimer = FALSE,
                    !.g[l].info.incoming = FALSE,
                    !.g[l].info.peeraddr = ZeroMac,
                    !.g[l].info.real_session = "",
                    !.g[l].info.agent_cid = "",
                    !.g[l].info.agent_rid = "",
                    !.g[l].info.mp_reply = FALSE ]

\* PppoeShutdown
PppoeShutdown(S, l) == PppoeReleaseNode(PppoeUnListen(PppoeDoClose(S, l), l), l)

\* LinkShutdown of the link framework: the type's shutdown, then the slot of
\* gLinks is emptied.
LinkShutdown(S, l) ==
    LET S1 == PppoeShutdown(S, l)
    IN IF S1.crash THEN S1 ELSE [S1 EXCEPT !.g[l] = NoLink]

----------------------------------------------------------------------------
\* PppoeOpen.  cf: outcome of CreatePppoeNode if a node is created;
\* fail: which step fails (0: none).  Incoming: 1 PhysGetUpperHook,
\* 2 NGM_CONNECT.  Outgoing: 1 PhysGetUpperHook, 2 NGM_CONNECT,
\* 3 NGM_PPPOE_SETMAXP, 4 NGM_PPPOE_CONNECT.  sf: NgFuncShutdownNode of the
\* tee fails (logged only).
OpenFail2(S, l) ==
    PhysDown(Emit(S, Op("NgFuncDisconnect", l, S.g[l].info.PIf, "session_hook", TRUE)),
             l, "ERROR")

OpenIncoming(S, l, fail, sf) ==
    IF S.g[l].info.PIf = NULL THEN Crash(S)
    ELSE IF fail = 1 THEN OpenFail2(S, l)
    ELSE IF fail = 2
         THEN OpenFail2(Emit(S, Op("NGM_CONNECT", l, S.g[l].info.PIf, "right", FALSE)), l)
    ELSE LET S1 == Emit(S, Op("NGM_CONNECT", l, S.g[l].info.PIf, "right", TRUE))
             S2 == Emit(S1, Op("NgFuncShutdownNode", l, S.g[l].info.PIf, "tee", ~sf))
         IN IF S2.g[l].state = "READY"
            THEN PhysUp([S2 EXCEPT !.g[l].info.connectTimer = FALSE,
                                   !.g[l].state = "UP"], l)
            ELSE S2

\* PppoeOpen on an outgoing link that keeps the service of the last session.
OpenOutgoingKeepsService(S, l, cf, fail) ==
    IF S.g[l].state # "DOWN" THEN S
    ELSE LET S1 == PppoeGetNode(S, l, cf)
             i == S1.g[l].info.PIf
             connect == Emit(S1, Op("NGM_CONNECT", l, i, "session_hook", fail # 2))
             setmaxp == Emit(connect, Op("NGM_PPPOE_SETMAXP", l, i, "session_hook", fail # 3))
             pconn == Emit(setmaxp, Op("NGM_PPPOE_CONNECT", l, i,
                                       S1.g[l].info.session, fail # 4))
         IN IF S1.crash THEN S1
            ELSE IF i = NULL THEN PhysDown(S1, l, "ERROR")
            ELSE IF fail = 1 THEN OpenFail2(S1, l)
            ELSE IF fail = 2 THEN OpenFail2(connect, l)
            ELSE IF fail = 3 THEN OpenFail2(setmaxp, l)
            ELSE IF fail = 4 THEN OpenFail2(pconn, l)
            ELSE [pconn EXCEPT !.g[l].info.connectTimer = TRUE,
                               !.g[l].state = "CONNECTING",
                               !.g[l].info.agent_cid = "",
                               !.g[l].info.agent_rid = "",
                               !.g[l].info.mp_reply = FALSE]

OpenOutgoing(S, l, cf, fail) ==
    IF S.g[l].state # "DOWN" THEN S
    ELSE LET S1 == PppoeGetNode(S, l, cf)
             i == S1.g[l].info.PIf
             connect == Emit(S1, Op("NGM_CONNECT", l, i, "session_hook", fail # 2))
             setmaxp == Emit(connect, Op("NGM_PPPOE_SETMAXP", l, i, "session_hook", fail # 3))
             pconn == Emit(setmaxp, Op("NGM_PPPOE_CONNECT", l, i,
                                       S1.g[l].info.session, fail # 4))
         IN IF S1.crash THEN S1
            ELSE IF i = NULL THEN PhysDown(S1, l, "ERROR")
            ELSE IF fail = 1 THEN OpenFail2(S1, l)
            ELSE IF fail = 2 THEN OpenFail2(connect, l)
            ELSE IF fail = 3 THEN OpenFail2(setmaxp, l)
            ELSE IF fail = 4 THEN OpenFail2(pconn, l)
            ELSE [pconn EXCEPT !.g[l].info.connectTimer = TRUE,
                               !.g[l].state = "CONNECTING",
                               !.g[l].info.real_session = S1.g[l].info.session,
                               !.g[l].info.agent_cid = "",
                               !.g[l].info.agent_rid = "",
                               !.g[l].info.mp_reply = FALSE]

PppoeOpenBody(S, l, cf, fail, sf) ==
    LET S0 == [S EXCEPT !.g[l].info.opened = TRUE]
    IN IF S0.g[l].info.incoming
       THEN OpenIncoming(S0, l, fail, sf)
       ELSE OpenOutgoing(S0, l, cf, fail)

\* The outcomes CreatePppoeNode can have when PppoeGetNode is called for
\* link l: a node is created only if the link holds no parent, its path is
\* defined and in no slot, and a slot is free.
CreateChoices(S, l) ==
    IF /\ S.g[l].info.PIf = NULL
       /\ S.g[l].info.path # UndefinedStr \o <<":">>
       /\ MatchSlots(S, S.g[l].info.path) = {}
       /\ FreeSlots(S) # {}
    THEN IF S.eth THEN CreateOutcomes \ {"kldload"} ELSE CreateOutcomes
    ELSE {"ok"}

\* The failures that can happen in PppoeOpen on link l.
OpenInputs(l) ==
    IF gLinks[l].info.incoming
    THEN [cf : {"ok"}, fail : {1, 2}, sf : {FALSE}]
             \cup [cf : {"ok"}, fail : {0}, sf : BOOLEAN]
    ELSE IF gLinks[l].state # "DOWN"
    THEN [cf : {"ok"}, fail : {0}, sf : {FALSE}]
    ELSE [cf : CreateChoices(Cur, l), fail : {0}, sf : {FALSE}]
             \cup [cf : {"ok"}, fail : 1 .. 4, sf : {FALSE}]

\* The link framework opens links, never templates.
PppoeOpen(l, cf, fail, sf) ==
    /\ ~crashed
    /\ UNCHANGED nCmd
    /\ gLinks[l].present /\ ~gLinks[l].tmpl
    /\ Finish(PppoeOpenBody(Cur, l, cf, fail, sf))

\* PppoeConnectTimeout: the one-shot timer has expired.
TimeoutBody(S, l) ==
    PhysDown(PppoeDoClose([S EXCEPT !.g[l].info.connectTimer = FALSE], l),
             l, "CON_FAILED")

PppoeConnectTimeout(l) ==
    /\ ~crashed
    /\ UNCHANGED nCmd
    /\ gLinks[l].present /\ gLinks[l].info.connectTimer
    /\ Finish(TimeoutBody(Cur, l))

\* PppoeClose without the reset of opened.
PppoeCloseKeepsOpened(S, l) ==
    IF S.g[l].state = "DOWN" THEN S
    ELSE PhysDown(PppoeDoClose(S, l), l, "MANUAL")

\* PppoeClose
PppoeCloseBody(S, l) ==
    LET S0 == [S EXCEPT !.g[l].info.opened = FALSE]
    IN IF S0.g[l].state = "DOWN" THEN S0
       ELSE PhysDown(PppoeDoClose(S0, l), l, "MANUAL")

PppoeClose(l) ==
    /\ ~crashed
    /\ UNCHANGED nCmd
    /\ gLinks[l].present /\ ~gLinks[l].tmpl
    /\ Finish(PppoeCloseBody(Cur, l))

\* LinkShutdown called by the link framework (link destroyed).
Shutdown(l) ==
    /\ ~crashed
    /\ UNCHANGED nCmd
    /\ gLinks[l].present
    /\ Finish(LinkShutdown(Cur, l))

----------------------------------------------------------------------------
\* PppoeCtrlReadEvent.  A control message m: m.rx is what NgRecvMsg gave
\* ("err": read error, "cookie": foreign type cookie, "ok"), m.cmd the
\* command, m.hook the hook name in the message, m.data the PPP-Max-Payload
\* value of a SETMAXP.
Hooks == {[kind |-> "listen", id |-> 0], [kind |-> "other", id |-> 0]}
             \cup {[kind |-> "mpd", id |-> k] : k \in LinkIds}
RoutedCmds == {"SUCCESS", "FAIL", "CLOSE", "SETMAXP"}
NoHook == [kind |-> "other", id |-> 0]
CtrlMsgs ==
    [rx : {"ok"}, cmd : {"SUCCESS", "FAIL", "CLOSE"}, hook : Hooks, data : {0}]
    \cup [rx : {"ok"}, cmd : {"SETMAXP"}, hook : Hooks, data : MaxpReplies]
    \cup [rx : {"ok"}, cmd : {"SESSIONID"}, hook : {NoHook}, data : {0}]
    \cup [rx : {"err", "cookie"}, cmd : {"SUCCESS"}, hook : {NoHook}, data : {0}]
    \cup [rx : {"cookie"}, cmd : {"SUCCESS", "CLOSE"},
          hook : {[kind |-> "mpd", id |-> k] : k \in LinkIds}, data : {0}]

\* The routing without the test of the DOWN state.
CtrlLinkIgnoresDown(S, slot, m) ==
    IF m.rx # "ok" \/ m.cmd \notin RoutedCmds THEN NULL
    ELSE IF m.hook.kind = "listen" THEN NULL
    ELSE IF m.hook.kind # "mpd" THEN NULL
    ELSE IF ~S.g[m.hook.id].present \/ S.g[m.hook.id].info.PIf # slot THEN NULL
    ELSE m.hook.id

\* The link a message is dispatched to, NULL when the message is dropped.
CtrlLink(S, slot, m) ==
    IF m.rx # "ok" \/ m.cmd \notin RoutedCmds THEN NULL
    ELSE IF m.hook.kind = "listen" THEN NULL
    ELSE IF m.hook.kind # "mpd" THEN NULL
    ELSE IF ~S.g[m.hook.id].present \/ S.g[m.hook.id].info.PIf # slot THEN NULL
    ELSE IF S.g[m.hook.id].state = "DOWN" THEN NULL
    ELSE m.hook.id

\* The SUCCESS case without the test of opened, and without the TimerStop.
OnSuccessIgnoresOpened(S, l) ==
    PhysUp([S EXCEPT !.g[l].info.connectTimer = FALSE, !.g[l].state = "UP"], l)

OnSuccessKeepsTimer(S, l) ==
    IF S.g[l].info.opened
    THEN PhysUp([S EXCEPT !.g[l].state = "UP"], l)
    ELSE [S EXCEPT !.g[l].state = "READY"]

\* The SUCCESS, FAIL, CLOSE and SETMAXP cases of the second switch.
OnSuccess(S, l) ==
    IF S.g[l].info.opened
    THEN PhysUp([S EXCEPT !.g[l].info.connectTimer = FALSE, !.g[l].state = "UP"], l)
    ELSE [S EXCEPT !.g[l].state = "READY"]

OnFail(S, l) == PhysDown(PppoeDoClose(S, l), l, "CON_FAILED")

\* The CLOSE case reporting the reason of the FAIL case.
OnCloseAsFail(S, l) == PhysDown(PppoeDoClose(S, l), l, "CON_FAILED")

OnClose(S, l) == PhysDown(PppoeDoClose(S, l), l, "DROPPED")

\* The SETMAXP case without the comparison of the two values.
OnSetMaxpAnyValue(S, l, data) ==
    IF S.g[l].info.max_payload > 0
    THEN [S EXCEPT !.g[l].info.mp_reply = TRUE]
    ELSE S

OnSetMaxp(S, l, data) ==
    IF S.g[l].info.max_payload > 0 /\ S.g[l].info.max_payload = data
    THEN [S EXCEPT !.g[l].info.mp_reply = TRUE]
    ELSE S

CtrlBody(S, slot, m) ==
    LET l == CtrlLink(S, slot, m)
    IN IF l = NULL THEN S
       ELSE IF m.cmd = "SUCCESS" THEN OnSuccess(S, l)
       ELSE IF m.cmd = "FAIL" THEN OnFail(S, l)
       ELSE IF m.cmd = "CLOSE" THEN OnClose(S, l)
       ELSE OnSetMaxp(S, l, m.data)

PppoeCtrlReadEvent(slot, m) ==
    /\ ~crashed
    /\ UNCHANGED nCmd
    /\ PppoeIfs[slot].registered
    /\ Finish(CtrlBody(Cur, slot, m))

----------------------------------------------------------------------------
\* PppoeListenEvent.  A frame read from the data socket of a parent:
\* f.rx      "err", "closed" or "ok" (NgRecvData),
\* f.listen  the receiving hook is named listen-<f.service>,
\* f.short   the frame is shorter than the PPPoE and Ethernet headers,
\* f.mac     the Ethernet source address,
\* f.tag     the Service-Name tag found, "" when get_tag finds none,
\* f.cid, f.rid  the agent ids found in the vendor tag,
\* f.busy    gShutdownInProgress or OVERLOAD(),
\* f.fail    the step of the acceptance that fails (0: none): 1 MKPEER of
\*           the tee, 2 NGM_CONNECT to the tee, 3 OFFER, 4 SERVICE,
\*           5 NgSendData, 6 NgFuncDisconnect.
Frames ==
    [ rx : {"ok"}, listen : {TRUE}, short : {FALSE}, service : Services,
      mac : Macs, tag : {""}, cid : {""}, rid : {""}, busy : {FALSE}, fail : 0 .. 6 ]
    \cup [ rx : {"ok"}, listen : {TRUE}, short : {FALSE}, service : Services,
           mac : Macs, tag : {"gold"}, cid : {"circuit-A"}, rid : {"remote-B"},
           busy : {FALSE}, fail : {0} ]
    \cup [ rx : {"err", "closed"}, listen : {TRUE}, short : {FALSE}, service : {"isp"},
           mac : Macs, tag : {""}, cid : {""}, rid : {""}, busy : {FALSE}, fail : {0} ]
    \cup [ rx : {"ok"}, listen : BOOLEAN, short : BOOLEAN, service : {"isp"},
           mac : Macs, tag : {""}, cid : {""}, rid : {""}, busy : BOOLEAN, fail : {0} ]

Dropped(f) == f.rx # "ok" \/ ~f.listen \/ f.short \/ f.busy

\* The scan without the comparison of the service name.
CandidatesAnyService(S, slot, service) ==
    { k \in LinkIds : /\ S.g[k].present
                      /\ ~PhysIsBusy(S, k)
                      /\ S.g[k].info.PIf = slot
                      /\ S.g[k].incomingOpt }

\* The links the scan over gLinks accepts for a frame on listen-<service>.
Candidates(S, slot, service) ==
    { k \in LinkIds : /\ S.g[k].present
                      /\ ~PhysIsBusy(S, k)
                      /\ S.g[k].info.PIf = slot
                      /\ S.g[k].info.session = service
                      /\ S.g[k].incomingOpt }

EmptyLinkSlots(S) == { k \in LinkIds : ~S.g[k].present }

\* The acceptance with NGM_PPPOE_SERVICE sent before NGM_PPPOE_OFFER.
AcceptOpsServiceFirst(l, slot, session, fail) ==
    LET all == << Op("NGM_MKPEER_tee", l, slot, "session_hook", fail # 1),
                  Op("NGM_CONNECT_tee", l, slot, "left2right", fail # 2),
                  Op("NGM_PPPOE_SERVICE", l, slot, session, fail # 3),
                  Op("NGM_PPPOE_OFFER", l, slot, "session_hook", fail # 4),
                  Op("NgSendData", l, slot, "frame", fail # 5),
                  Op("NgFuncDisconnect_sock", l, slot, "link_name", fail # 6) >>
    IN IF fail = 0 THEN all ELSE SubSeq(all, 1, fail)

\* Steps 1..6 of the acceptance, up to and including the failing one.
AcceptOps(l, slot, session, fail) ==
    LET all == << Op("NGM_MKPEER_tee", l, slot, "session_hook", fail # 1),
                  Op("NGM_CONNECT_tee", l, slot, "left2right", fail # 2),
                  Op("NGM_PPPOE_OFFER", l, slot, "session_hook", fail # 3),
                  Op("NGM_PPPOE_SERVICE", l, slot, session, fail # 4),
                  Op("NgSendData", l, slot, "frame", fail # 5),
                  Op("NgFuncDisconnect_sock", l, slot, "link_name", fail # 6) >>
    IN IF fail = 0 THEN all ELSE SubSeq(all, 1, fail)

\* The acceptance that leaves a link that is not static in place when a
\* step fails.
AcceptKeepsLink(S, l, slot, f) ==
    LET pi == S.g[l].info
        S1 == [S EXCEPT !.o = @ \o AcceptOps(l, slot, pi.session, f.fail)]
    IN IF f.fail = 0
       THEN PhysIncoming(
              [S1 EXCEPT !.g[l].state = "CONNECTING",
                         !.g[l].info.incoming = TRUE,
                         !.g[l].info.peeraddr = f.mac,
                         !.g[l].info.real_session =
                             IF f.tag # "" THEN f.tag ELSE f.service,
                         !.g[l].info.agent_cid = f.cid,
                         !.g[l].info.agent_rid = f.rid,
                         !.g[l].info.connectTimer = TRUE], l)
       ELSE IF f.fail >= 2
            THEN Emit(S1, Op("NgFuncShutdownNode", l, slot, "tee", TRUE))
            ELSE S1

\* The acceptance with opened cleared for the new session.
AcceptClearsOpened(S, l, slot, f) ==
    LET pi == S.g[l].info
        S1 == [S EXCEPT !.o = @ \o AcceptOps(l, slot, pi.session, f.fail)]
    IN IF f.fail = 0
       THEN PhysIncoming(
              [S1 EXCEPT !.g[l].state = "CONNECTING",
                         !.g[l].info.opened = FALSE,
                         !.g[l].info.incoming = TRUE,
                         !.g[l].info.peeraddr = f.mac,
                         !.g[l].info.real_session =
                             IF f.tag # "" THEN f.tag ELSE f.service,
                         !.g[l].info.agent_cid = f.cid,
                         !.g[l].info.agent_rid = f.rid,
                         !.g[l].info.connectTimer = TRUE], l)
       ELSE LET S2 == IF f.fail >= 2
                      THEN Emit(S1, Op("NgFuncShutdownNode", l, slot, "tee", TRUE))
                      ELSE S1
            IN IF ~S2.g[l].stay THEN LinkShutdown(S2, l) ELSE S2

Accept(S, l, slot, f) ==
    LET pi == S.g[l].info
        S1 == [S EXCEPT !.o = @ \o AcceptOps(l, slot, pi.session, f.fail)]
    IN IF f.fail = 0
       THEN PhysIncoming(
              [S1 EXCEPT !.g[l].state = "CONNECTING",
                         !.g[l].info.incoming = TRUE,
                         !.g[l].info.peeraddr = f.mac,
                         !.g[l].info.real_session =
                             IF f.tag # "" THEN f.tag ELSE f.service,
                         !.g[l].info.agent_cid = f.cid,
                         !.g[l].info.agent_rid = f.rid,
                         !.g[l].info.connectTimer = TRUE], l)
       ELSE LET S2 == IF f.fail >= 2
                      THEN Emit(S1, Op("NgFuncShutdownNode", l, slot, "tee", TRUE))
                      ELSE S1
            IN IF ~S2.g[l].stay THEN LinkShutdown(S2, l) ELSE S2

ListenBody(S, slot, f) ==
    LET cand == Candidates(S, slot, f.service)
        l2 == MinOf(cand)
        l == IF S.g[l2].tmpl THEN MinOf(EmptyLinkSlots(S)) ELSE l2
    IN IF Dropped(f) \/ cand = {} THEN S
       ELSE IF S.g[l2].tmpl
            THEN Accept(LinkInst(S, l, l2), l, slot, f)
            ELSE Accept(S, l, slot, f)

\* The frames that can arrive on a parent: every failure of the acceptance
\* is tried where a link accepts the frame.
FramesOn(slot) ==
    { f \in Frames : f.fail # 0 => Candidates(Cur, slot, f.service) # {} }

\* The link the frame is accepted on (NULL: dropped).
ListenLink(S, slot, f) ==
    LET cand == Candidates(S, slot, f.service)
    IN IF Dropped(f) \/ cand = {} THEN NULL
       ELSE IF S.g[MinOf(cand)].tmpl THEN MinOf(EmptyLinkSlots(S)) ELSE MinOf(cand)

PppoeListenEvent(slot, f) ==
    /\ ~crashed
    /\ UNCHANGED nCmd
    /\ PppoeIfs[slot].registered
    \* gLinks has room for the instance LinkInst creates
    /\ LET cand == Candidates(Cur, slot, f.service)
       IN (~Dropped(f) /\ cand # {} /\ gLinks[MinOf(cand)].tmpl)
              => EmptyLinkSlots(Cur) # {}
    /\ Finish(ListenBody(Cur, slot, f))

----------------------------------------------------------------------------
\* PppoeSetCommand
SetIfaceBody(S, l, iface, cf, lf) ==
    LET S0 == [S EXCEPT !.g[l].info.iface = iface,
                        !.g[l].info.path = MkPath(iface),
                        !.g[l].info.hook = "orphans"]
    IN IF S0.g[l].info.list # NoList
       THEN PppoeListen(PppoeGetNode(PppoeReleaseNode(PppoeUnListen(S0, l), l), l, cf), l, lf)
       ELSE S0

\* Failures matter to set iface and set service only where a listener is
\* re-established.
RelistenInputs(l) ==
    IF gLinks[l].info.list # NoList
    THEN [cf : IF gNgEtherLoaded THEN CreateOutcomes \ {"kldload"} ELSE CreateOutcomes,
          lf : 0 .. 2]
    ELSE [cf : {"ok"}, lf : {0}]

SetIface(l, iface, cf, lf) ==
    /\ ~crashed
    /\ gLinks[l].stay
    /\ nCmd < MaxCmds
    /\ nCmd' = nCmd + 1
    /\ gLinks[l].present
    /\ Finish(SetIfaceBody(Cur, l, iface, cf, lf))

\* set service that leaves the listener where it is.
SetSessionKeepsListener(S, l, s, lf) ==
    [S EXCEPT !.g[l].info.session = s]

SetSessionBody(S, l, s, lf) ==
    LET S0 == [S EXCEPT !.g[l].info.session = s]
    IN IF S0.g[l].info.list # NoList
       THEN PppoeListen(PppoeUnListen(S0, l), l, lf)
       ELSE S0

SetSession(l, s, lf) ==
    /\ ~crashed
    /\ gLinks[l].stay
    /\ nCmd < MaxCmds
    /\ nCmd' = nCmd + 1
    /\ gLinks[l].present
    /\ Finish(SetSessionBody(Cur, l, s, lf))

SetMaxPayloadBody(S, l, ap) ==
    IF ap < PPPOE_MRU \/ ap > ETHER_MAX_LEN - 8 THEN S
    ELSE [S EXCEPT !.g[l].info.max_payload = ap]

SetMaxPayload(l, ap) ==
    /\ ~crashed
    /\ gLinks[l].stay
    /\ nCmd < MaxCmds
    /\ nCmd' = nCmd + 1
    /\ gLinks[l].present
    /\ Finish(SetMaxPayloadBody(Cur, l, ap))

\* The link framework changes the link option LINK_CONF_INCOMING and calls
\* the type's update method, PppoeNodeUpdate.
UpdateInputs(l, en) ==
    IF gLinks[l].info.list = NoList /\ en
    THEN [cf : CreateChoices(Cur, l), lf : 0 .. 2]
    ELSE [cf : {"ok"}, lf : {0}]

Update(l, en, cf, lf) ==
    /\ ~crashed
    /\ gLinks[l].stay
    /\ nCmd < MaxCmds
    /\ nCmd' = nCmd + 1
    /\ gLinks[l].present
    /\ Finish(PppoeNodeUpdate([Cur EXCEPT !.g[l].incomingOpt = en], l, cf, lf))

----------------------------------------------------------------------------
\* No frame is being parsed.
NoFrame == [buf |-> << >>, length |-> 0, session |-> << >>, signed |-> FALSE,
            tags |-> << >>, subs |-> << >>, tail |-> "none"]
NoParse == [done |-> FALSE]

InitLinks ==
    /\ gLinks = [k \in LinkIds |->
                    IF k = 0 THEN NewLink(FALSE, TRUE)
                    ELSE IF k = 1 THEN NewLink(TRUE, TRUE)
                    ELSE NoLink]
    /\ PppoeIfs = [i \in Slots |-> ZeroIf]
    /\ gNgEtherLoaded = FALSE
    /\ crashed = FALSE
    /\ nUp = [k \in LinkIds |-> 0]
    /\ nCmd = 0

Init ==
    /\ InitLinks
    /\ response = NoFrame
    /\ parsed = NoParse


Next ==
    \/ \E l \in LinkIds : \E i \in OpenInputs(l) : PppoeOpen(l, i.cf, i.fail, i.sf)
    \/ \E l \in LinkIds : PppoeConnectTimeout(l)
    \/ \E l \in LinkIds : PppoeClose(l)
    \/ \E l \in LinkIds : Shutdown(l)
    \/ \E slot \in Slots, m \in CtrlMsgs : PppoeCtrlReadEvent(slot, m)
    \/ \E slot \in Slots : \E f \in FramesOn(slot) : PppoeListenEvent(slot, f)
    \/ \E l \in LinkIds, iface \in Ifaces : \E i \in RelistenInputs(l) :
          SetIface(l, iface, i.cf, i.lf)
    \/ \E l \in LinkIds, s \in Services : \E i \in RelistenInputs(l) :
          SetSession(l, s, i.lf)
    \/ \E l \in LinkIds, ap \in MaxPayloads : SetMaxPayload(l, ap)
    \/ \E l \in LinkIds, en \in BOOLEAN : \E i \in UpdateInputs(l, en) :
          Update(l, en, i.cf, i.lf)

Spec == Init /\ [][Next]_vars

----------------------------------------------------------------------------
\* Properties.  A contract of a handler is stated over every reachable state
\* the handler can start in: the handler's result S is computed from that
\* state, S.g holding the links it leaves and S.o what it has issued.

\* Control message m, read from the socket of parent slot, reaches link l.
Dispatched(slot, m, l) ==
    ~crashed /\ PppoeIfs[slot].registered /\ CtrlLink(Cur, slot, m) = l

\* The PhysDown notifications for link l among the operations o, in order.
PhysDowns(o, l) == SelectSeq(o, LAMBDA e : e.op = "PhysDown" /\ e.link = l)

\* The session hook of link l is disconnected among the operations o.
HookDisconnected(o, l) ==
    \E n \in 1 .. Len(o) : /\ o[n].op = "NgFuncDisconnect"
                           /\ o[n].link = l
                           /\ o[n].arg = "session_hook"

\* What PppoeDoClose is to leave behind in link record k.
Closed(k) ==
    /\ k.state = "DOWN"
    /\ ~k.info.connectTimer
    /\ k.info.peeraddr = ZeroMac
    /\ k.info.real_session = ""
    /\ k.info.agent_cid = ""
    /\ k.info.agent_rid = ""
    /\ ~k.info.mp_reply

\* C1: a SUCCESS dispatched to a link that is already READY or UP leaves the
\* state unchanged and issues no PhysUp, so that PhysUp is called at most
\* once between the link leaving DOWN and returning to DOWN.
C1_DuplicateSuccessNoOp ==
    /\ \A slot \in Slots, m \in CtrlMsgs, l \in LinkIds :
          (Dispatched(slot, m, l) /\ m.cmd = "SUCCESS"
                                  /\ gLinks[l].state \in {"READY", "UP"})
          => LET S == CtrlBody(Cur, slot, m)
             IN /\ S.g[l].state = gLinks[l].state
                /\ CountOps(S.o, "PhysUp", l) = 0
    /\ \A l \in LinkIds : nUp[l] <= 1

\* C2: a SUCCESS dispatched to a link in CONNECTING stops the timer, moves
\* the link to UP and calls PhysUp once if opened is true; it moves the link
\* to READY and calls no PhysUp if opened is false.
C2_SuccessInConnecting ==
    \A slot \in Slots, m \in CtrlMsgs, l \in LinkIds :
        (Dispatched(slot, m, l) /\ m.cmd = "SUCCESS"
                                /\ gLinks[l].state = "CONNECTING")
        => LET S == CtrlBody(Cur, slot, m)
           IN /\ ~S.crash
              /\ IF gLinks[l].info.opened
                 THEN /\ S.g[l].state = "UP"
                      /\ ~S.g[l].info.connectTimer
                      /\ CountOps(S.o, "PhysUp", l) = 1
                 ELSE /\ S.g[l].state = "READY"
                      /\ CountOps(S.o, "PhysUp", l) = 0

\* Both cases have happened: an outgoing link went UP on its SUCCESS with
\* one PhysUp, and an incoming link not yet opened went to READY.
C2_Witness ==
    /\ \E l \in LinkIds : /\ gLinks[l].present /\ gLinks[l].state = "UP"
                          /\ ~gLinks[l].info.incoming /\ gLinks[l].info.opened
                          /\ ~gLinks[l].info.connectTimer /\ nUp[l] = 1
    /\ \E l \in LinkIds : /\ gLinks[l].present /\ gLinks[l].state = "READY"
                          /\ ~gLinks[l].info.opened

\* C3: a FAIL dispatched to a link in CONNECTING or READY, and a CLOSE
\* dispatched to a link in any state but DOWN, disconnect the session hook,
\* stop the timer, clear peer address, real service, agent ids and mp_reply,
\* leave the link DOWN and issue exactly one PhysDown: CON_FAILED for FAIL,
\* DROPPED for CLOSE.
C3_FailAndCloseGoDown ==
    \A slot \in Slots, m \in CtrlMsgs, l \in LinkIds :
        (/\ Dispatched(slot, m, l)
         /\ \/ m.cmd = "FAIL" /\ gLinks[l].state \in {"CONNECTING", "READY"}
            \/ m.cmd = "CLOSE" /\ gLinks[l].state # "DOWN")
        => LET S == CtrlBody(Cur, slot, m)
           IN /\ ~S.crash
              /\ Closed(S.g[l])
              /\ HookDisconnected(S.o, l)
              /\ PhysDowns(S.o, l) =
                    << Op("PhysDown", l, NULL,
                          IF m.cmd = "FAIL" THEN "CON_FAILED" ELSE "DROPPED", TRUE) >>

\* A CLOSE reaches a link that is UP with an echoed PPP-Max-Payload, and a
\* FAIL reaches a READY link that holds a peer address and agent ids.
C3_Witness ==
    /\ \E slot \in Slots, m \in CtrlMsgs, l \in LinkIds :
          /\ Dispatched(slot, m, l) /\ m.cmd = "CLOSE"
          /\ gLinks[l].state = "UP" /\ gLinks[l].info.mp_reply
          /\ CtrlBody(Cur, slot, m).g[l].state = "DOWN"
    /\ \E slot \in Slots, m \in CtrlMsgs, l \in LinkIds :
          /\ Dispatched(slot, m, l) /\ m.cmd = "FAIL"
          /\ gLinks[l].state = "READY" /\ gLinks[l].info.agent_cid # ""
          /\ gLinks[l].info.peeraddr # ZeroMac
          /\ CtrlBody(Cur, slot, m).g[l].state = "DOWN"

\* C4: a link opened for an outgoing session that has received no SUCCESS,
\* FAIL or CLOSE is CONNECTING with its timer armed; when the timer fires the
\* link ends DOWN with the timer idle and exactly one PhysDown(CON_FAILED).
C4_ConnectTimeout ==
    \A l \in LinkIds :
        (/\ ~crashed /\ gLinks[l].present
         /\ ~gLinks[l].info.incoming /\ gLinks[l].info.opened
         /\ gLinks[l].state = "CONNECTING" /\ gLinks[l].info.connectTimer)
        => LET S == TimeoutBody(Cur, l)
           IN /\ ~S.crash
              /\ S.g[l].state = "DOWN"
              /\ ~S.g[l].info.connectTimer
              /\ PhysDowns(S.o, l) = << Op("PhysDown", l, NULL, "CON_FAILED", TRUE) >>

\* C5: close() always sets opened to false; on a DOWN link it does nothing
\* else (no graph operation, no notification); on any other link it
\* disconnects the session hook, stops the timer, clears peer address, real
\* service, agent ids and mp_reply, sets the state DOWN and issues exactly
\* one PhysDown(MANUAL).
C5_CloseContract ==
    \A l \in LinkIds :
        (~crashed /\ gLinks[l].present /\ ~gLinks[l].tmpl)
        => LET S == PppoeCloseBody(Cur, l)
           IN /\ ~S.crash
              /\ ~S.g[l].info.opened
              /\ IF gLinks[l].state = "DOWN"
                 THEN /\ S.o = << >>
                      /\ S.g = [gLinks EXCEPT ![l].info.opened = FALSE]
                      /\ S.p = PppoeIfs
                 ELSE /\ Closed(S.g[l])
                      /\ HookDisconnected(S.o, l)
                      /\ PhysDowns(S.o, l) =
                            << Op("PhysDown", l, NULL, "MANUAL", TRUE) >>

\* C6: in every reachable state the connect timer of a link is idle when the
\* link is DOWN or UP and running when the link is CONNECTING.
C6_TimerByState ==
    \A l \in LinkIds :
        gLinks[l].present
        => /\ gLinks[l].state \in {"DOWN", "UP"} => ~gLinks[l].info.connectTimer
           /\ gLinks[l].state = "CONNECTING" => gLinks[l].info.connectTimer

\* One link is UP (its timer ran and was stopped), one is CONNECTING, and one
\* is DOWN.
C6_Witness ==
    /\ \E l \in LinkIds : gLinks[l].present /\ gLinks[l].state = "UP" /\ nUp[l] = 1
    /\ \E l \in LinkIds : gLinks[l].present /\ gLinks[l].state = "CONNECTING"
    /\ \E l \in LinkIds : gLinks[l].present /\ gLinks[l].state = "DOWN"

\* C7: in every reachable state a link that is DOWN has an all-zero peer
\* address, empty agent ids and mp_reply false.
C7_DownHasNoPeer ==
    \A l \in LinkIds :
        (gLinks[l].present /\ gLinks[l].state = "DOWN")
        => /\ gLinks[l].info.peeraddr = ZeroMac
           /\ gLinks[l].info.agent_cid = ""
           /\ gLinks[l].info.agent_rid = ""
           /\ ~gLinks[l].info.mp_reply

\* A template instance is DOWN again after its incoming session was closed,
\* beside a link that is still as PppoeInit left it.
C7_Witness ==
    /\ \E l \in LinkIds : /\ gLinks[l].present /\ ~gLinks[l].stay
                          /\ gLinks[l].state = "DOWN"
                          /\ gLinks[l].info.real_session = ""
    /\ \E l \in LinkIds : /\ gLinks[l].present /\ gLinks[l].stay
                          /\ gLinks[l].info = PppoeInit

\* C8 as stated: in every reachable state, from initialisation onward, a
\* link that is DOWN has an empty real service name.
C8_DownHasNoService ==
    \A l \in LinkIds :
        (gLinks[l].present /\ gLinks[l].state = "DOWN")
        => gLinks[l].info.real_session = ""

\* C8 amended: a DOWN link's real service name is the default "*" that
\* PppoeInit copied from the configured service until the link's first
\* session, and empty from the close of a session on: it is one of the two in
\* every state, every step that takes a link to DOWN empties it, and no step
\* changes it while the link stays DOWN.
C8_DownServiceInitOrEmpty ==
    /\ [](\A l \in LinkIds :
            (gLinks[l].present /\ gLinks[l].state = "DOWN")
            => gLinks[l].info.real_session \in {"", PppoeInit.real_session})
    /\ [][\A l \in LinkIds :
            (gLinks[l].present /\ gLinks'[l].present /\ gLinks'[l].state = "DOWN")
            => gLinks'[l].info.real_session =
                  IF gLinks[l].state # "DOWN" THEN ""
                  ELSE gLinks[l].info.real_session]_vars

\* A link whose session was closed is DOWN with no real service name, beside
\* a link that never left DOWN and still has the default.
C8_Witness ==
    /\ \E l \in LinkIds : /\ gLinks[l].present /\ gLinks[l].state = "DOWN"
                          /\ gLinks[l].info.opened
                          /\ gLinks[l].info.real_session = ""
    /\ \E l \in LinkIds : /\ gLinks[l].present /\ gLinks[l].state = "DOWN"
                          /\ gLinks[l].info.real_session = "*"

\* C9 as stated: after close, shutdown, SUCCESS, FAIL or CLOSE has been
\* handled for a link that was not DOWN, the connect timer of that link is
\* not running.
C9_TimerStoppedByEvents ==
    \A l \in LinkIds :
        (~crashed /\ gLinks[l].present /\ gLinks[l].state # "DOWN")
        => /\ ~PppoeCloseBody(Cur, l).g[l].info.connectTimer
           /\ ~PppoeShutdown(Cur, l).g[l].info.connectTimer
           /\ \A slot \in Slots, m \in CtrlMsgs :
                 (Dispatched(slot, m, l) /\ m.cmd \in {"SUCCESS", "FAIL", "CLOSE"})
                 => ~CtrlBody(Cur, slot, m).g[l].info.connectTimer

\* C9 amended: FAIL, CLOSE and a SUCCESS handled while opened is true leave
\* the timer stopped; a SUCCESS handled while opened is false moves the link
\* to READY with the timer still running, and the open() that then takes the
\* link to UP stops it.  close and shutdown leave the timer stopped on every
\* link that holds its parent; on a link that does not they end the process
\* in PppoeDoClose before the timer is reached.
C9_TimerStoppedUnlessReady ==
    \A l \in LinkIds :
        (~crashed /\ gLinks[l].present /\ gLinks[l].state # "DOWN")
        => /\ LET S == PppoeCloseBody(Cur, l)
              IN IF gLinks[l].info.PIf = NULL THEN S.crash
                 ELSE ~S.crash /\ ~S.g[l].info.connectTimer
           /\ LET S == PppoeShutdown(Cur, l)
              IN IF gLinks[l].info.PIf = NULL THEN S.crash
                 ELSE ~S.crash /\ ~S.g[l].info.connectTimer
           /\ \A slot \in Slots, m \in CtrlMsgs :
                 Dispatched(slot, m, l)
                 => LET S == CtrlBody(Cur, slot, m)
                    IN /\ ~S.crash
                       /\ m.cmd \in {"FAIL", "CLOSE"} => ~S.g[l].info.connectTimer
                       /\ (m.cmd = "SUCCESS" /\ gLinks[l].info.opened)
                             => ~S.g[l].info.connectTimer
                       /\ (m.cmd = "SUCCESS" /\ ~gLinks[l].info.opened)
                             => S.g[l].state = "READY" /\ S.g[l].info.connectTimer
           /\ (gLinks[l].state = "READY" /\ gLinks[l].info.PIf # NULL)
                 => \A sf \in BOOLEAN :
                       LET S == PppoeOpenBody(Cur, l, "ok", 0, sf)
                       IN S.g[l].state = "UP" /\ ~S.g[l].info.connectTimer

\* A link is READY with its timer running (a SUCCESS was handled before
\* open()), beside a link that is UP with its timer stopped.
C9_Witness ==
    /\ \E l \in LinkIds : /\ gLinks[l].present /\ gLinks[l].state = "READY"
                          /\ gLinks[l].info.connectTimer
    /\ \E l \in LinkIds : /\ gLinks[l].present /\ gLinks[l].state = "UP"
                          /\ ~gLinks[l].info.connectTimer

\* C10: in every reachable state a link that is READY is an incoming session
\* and has not been opened.
C10_ReadyIsIncomingUnopened ==
    \A l \in LinkIds :
        (gLinks[l].present /\ gLinks[l].state = "READY")
        => gLinks[l].info.incoming /\ ~gLinks[l].info.opened

\* C11: a SUCCESS, FAIL, CLOSE or SETMAXP message is discarded, changing no
\* link, no registry entry and notifying nothing, when its type cookie is
\* foreign, its hook is a listen- hook, its hook lacks the mpd<pid>- prefix,
\* its link id names no link, the link's parent is not the parent whose
\* socket it was read from, or the link is DOWN.
C11_MessageDiscarded ==
    \A slot \in Slots, m \in CtrlMsgs :
        (/\ ~crashed /\ PppoeIfs[slot].registered
         /\ m.rx # "err" /\ m.cmd \in RoutedCmds
         /\ \/ m.rx = "cookie"
            \/ m.hook.kind = "listen"
            \/ m.hook.kind # "mpd"
            \/ ~gLinks[m.hook.id].present
            \/ gLinks[m.hook.id].info.PIf # slot
            \/ gLinks[m.hook.id].state = "DOWN")
        => LET S == CtrlBody(Cur, slot, m)
           IN /\ ~S.crash
              /\ S.g = gLinks
              /\ S.p = PppoeIfs
              /\ S.o = << >>

\* A SUCCESS arrives on the parent of a link that is DOWN again with opened
\* still set after its session ended, and a message for a link in a session
\* arrives on a parent that is not the link's.
C11_Witness ==
    /\ \E slot \in Slots, m \in CtrlMsgs :
          /\ ~crashed /\ PppoeIfs[slot].registered
          /\ m.rx = "ok" /\ m.cmd = "SUCCESS" /\ m.hook.kind = "mpd"
          /\ gLinks[m.hook.id].present /\ gLinks[m.hook.id].info.PIf = slot
          /\ gLinks[m.hook.id].state = "DOWN" /\ gLinks[m.hook.id].info.opened
          /\ gLinks[m.hook.id].info.real_session = ""
    /\ \E slot \in Slots, m \in CtrlMsgs :
          /\ ~crashed /\ PppoeIfs[slot].registered
          /\ m.rx = "ok" /\ m.cmd = "CLOSE" /\ m.hook.kind = "mpd"
          /\ gLinks[m.hook.id].present /\ gLinks[m.hook.id].state # "DOWN"
          /\ gLinks[m.hook.id].info.PIf # slot
\* C12: an outgoing open() from DOWN that acquires its parent and whose graph
\* sends all succeed leaves the link CONNECTING, outgoing, with the connect
\* timer running, real_service equal to the configured service, empty agent
\* ids and mp_reply false; open() on an outgoing link that is not DOWN
\* changes neither state nor timer and sends nothing to the graph.
C12_OutgoingOpen ==
    \A l \in LinkIds :
        (~crashed /\ gLinks[l].present /\ ~gLinks[l].tmpl /\ ~gLinks[l].info.incoming)
        => \A in \in OpenInputs(l) :
              LET S == PppoeOpenBody(Cur, l, in.cf, in.fail, in.sf)
              IN /\ (/\ gLinks[l].state = "DOWN"
                     /\ ~S.crash /\ S.g[l].info.PIf # NULL /\ in.fail = 0)
                    => /\ S.g[l].state = "CONNECTING"
                       /\ ~S.g[l].info.incoming
                       /\ S.g[l].info.connectTimer
                       /\ S.g[l].info.real_session = gLinks[l].info.session
                       /\ S.g[l].info.agent_cid = ""
                       /\ S.g[l].info.agent_rid = ""
                       /\ ~S.g[l].info.mp_reply
                 /\ gLinks[l].state # "DOWN"
                    => /\ ~S.crash
                       /\ S.g[l].state = gLinks[l].state
                       /\ S.g[l].info.connectTimer = gLinks[l].info.connectTimer
                       /\ S.p = PppoeIfs
                       /\ S.o = << >>

\* An outgoing link has been opened from DOWN with the service "isp", and
\* another open() can now find it CONNECTING.
C12_Witness ==
    \E l \in LinkIds :
        /\ ~crashed /\ gLinks[l].present /\ ~gLinks[l].tmpl
        /\ ~gLinks[l].info.incoming /\ gLinks[l].info.opened
        /\ gLinks[l].state = "CONNECTING" /\ gLinks[l].info.connectTimer
        /\ gLinks[l].info.PIf # NULL
        /\ gLinks[l].info.session = "isp"
        /\ gLinks[l].info.real_session = "isp"

\* The registry can give link l no slot: its path is in no slot and every
\* slot is occupied.
RegistryExhausted(l) ==
    /\ gLinks[l].info.PIf = NULL
    /\ gLinks[l].info.path # UndefinedStr \o <<":">>
    /\ MatchSlots(Cur, gLinks[l].info.path) = {}
    /\ FreeSlots(Cur) = {}

\* C13: an outgoing open() from DOWN that ends without a parent (registry
\* full or node creation failed) or in which a graph send fails leaves the
\* link DOWN with the timer idle, disconnects the session hook when the link
\* has a parent, and notifies exactly one PhysDown(ERROR); when the registry
\* is exhausted no registry slot is modified.
C13_FailedOutgoingOpen ==
    \A l \in LinkIds :
        (/\ ~crashed /\ gLinks[l].present /\ ~gLinks[l].tmpl
         /\ ~gLinks[l].info.incoming /\ gLinks[l].state = "DOWN")
        => \A in \in OpenInputs(l) :
              LET S == PppoeOpenBody(Cur, l, in.cf, in.fail, in.sf)
              IN (S.crash \/ S.g[l].info.PIf = NULL \/ in.fail # 0)
                 => /\ ~S.crash
                    /\ S.g[l].state = "DOWN"
                    /\ ~S.g[l].info.connectTimer
                    /\ S.g[l].info.PIf # NULL => HookDisconnected(S.o, l)
                    /\ Len(PhysDowns(S.o, l)) = 1
                    /\ PhysDowns(S.o, l)[1].arg = "ERROR"
                    /\ RegistryExhausted(l) => S.p = PppoeIfs

\* Every link for which handler result S holds a PhysDown is DOWN with its
\* timer idle in S.
DownWhenNotified(S) ==
    ~S.crash => \A k \in LinkIds :
                   PhysDowns(S.o, k) # << >>
                   => S.g[k].state = "DOWN" /\ ~S.g[k].info.connectTimer

\* C14: whenever a PhysDown (ERROR, CON_FAILED, MANUAL or DROPPED) is
\* notified for a link, by open(), the connect timeout, close() or a control
\* message, that link is DOWN and its connect timer is idle, also when a
\* graph send fails during open() on an incoming session.
C14_PhysDownLeavesDown ==
    ~crashed =>
        /\ \A l \in LinkIds :
              (gLinks[l].present /\ ~gLinks[l].tmpl)
              => /\ \A in \in OpenInputs(l) :
                       DownWhenNotified(PppoeOpenBody(Cur, l, in.cf, in.fail, in.sf))
                 /\ DownWhenNotified(PppoeCloseBody(Cur, l))
        /\ \A l \in LinkIds :
              (gLinks[l].present /\ gLinks[l].info.connectTimer)
              => DownWhenNotified(TimeoutBody(Cur, l))
        /\ \A slot \in Slots, m \in CtrlMsgs :
              PppoeIfs[slot].registered => DownWhenNotified(CtrlBody(Cur, slot, m))

\* The SUCCESS message for the session hook of link l.
SuccessFor(l) == [rx |-> "ok", cmd |-> "SUCCESS", hook |-> [kind |-> "mpd", id |-> l], data |-> 0]

\* C15: on an incoming session open() and SUCCESS end in UP with exactly one
\* PhysUp in either order: open() on a READY link moves it to UP with one
\* PhysUp and stops the timer; open() on a CONNECTING link leaves it
\* CONNECTING without PhysUp, and the SUCCESS that follows moves it to UP with
\* one PhysUp.
C15_OpenAndSuccessEitherOrder ==
    \A l \in LinkIds :
        (/\ ~crashed /\ gLinks[l].present /\ ~gLinks[l].tmpl
         /\ gLinks[l].info.incoming /\ gLinks[l].state \in {"READY", "CONNECTING"})
        => \A sf \in BOOLEAN :
              LET S == PppoeOpenBody(Cur, l, "ok", 0, sf)
                  T == CtrlBody([S EXCEPT !.o = << >>], S.g[l].info.PIf, SuccessFor(l))
              IN /\ nUp[l] = 0
                 /\ ~S.crash
                 /\ gLinks[l].state = "READY"
                    => /\ S.g[l].state = "UP"
                       /\ ~S.g[l].info.connectTimer
                       /\ CountOps(S.o, "PhysUp", l) = 1
                 /\ gLinks[l].state = "CONNECTING"
                    => /\ S.g[l].state = "CONNECTING"
                       /\ CountOps(S.o, "PhysUp", l) = 0
                       /\ ~T.crash
                       /\ T.g[l].state = "UP"
                       /\ ~T.g[l].info.connectTimer
                       /\ CountOps(T.o, "PhysUp", l) = 1

\* The links whose parent handle points to slot i, and those whose listener
\* handle points to the entry for service s of slot i.
ParentHolders(i) == {l \in LinkIds : gLinks[l].present /\ gLinks[l].info.PIf = i}
ListenerHolders(i, s) ==
    {l \in LinkIds : gLinks[l].present /\ gLinks[l].info.list = [slot |-> i, session |-> s]}

\* C16: each parent entry's refs is the number of links, templates and
\* instances, whose parent handle points to it, each listener entry's refs is
\* the number of links whose listener handle points to it, and no link holds
\* a handle to a freed entry.
C16_RefsCountHolders ==
    /\ \A i \in Slots :
          /\ PppoeIfs[i].refs = Cardinality(ParentHolders(i))
          /\ \A s \in Services :
                PppoeIfs[i].list[s] = Cardinality(ListenerHolders(i, s))
    /\ \A l \in LinkIds :
          gLinks[l].present
          => /\ gLinks[l].info.PIf # NULL
                => /\ PppoeIfs[gLinks[l].info.PIf].refs > 0
                   /\ PppoeIfs[gLinks[l].info.PIf].ifnodepath # << >>
             /\ gLinks[l].info.list # NoList
                => /\ PppoeIfs[gLinks[l].info.list.slot].list[gLinks[l].info.list.session] > 0
                   /\ PppoeIfs[gLinks[l].info.list.slot].refs > 0

\* A template and an instance made from it share a parent and a listener
\* entry, both with refs 2.
C16_Witness ==
    \E i \in Slots, s \in Services :
        /\ PppoeIfs[i].refs = 2 /\ PppoeIfs[i].list[s] = 2
        /\ \E l \in ParentHolders(i) : gLinks[l].tmpl
        /\ \E l \in ListenerHolders(i, s) : ~gLinks[l].tmpl /\ ~gLinks[l].stay

\* C17: for every parent slot, refs > 0 exactly when csock >= 0, dsock >= 0
\* and the node path is not empty; a slot is free exactly when its refs is 0,
\* and its two sockets are both set or both absent.
C17_RefsIffSocketsAndPath ==
    \A i \in Slots :
        /\ PppoeIfs[i].refs > 0
           <=> /\ PppoeIfs[i].csock >= 0
               /\ PppoeIfs[i].dsock >= 0
               /\ PppoeIfs[i].ifnodepath # << >>
        /\ i \in FreeSlots(Cur) <=> PppoeIfs[i].refs = 0
        /\ PppoeIfs[i].csock >= 0 <=> PppoeIfs[i].dsock >= 0

\* One slot is occupied with its sockets, while another is free and still
\* carries the descriptors of a node creation that failed.
C17_Witness ==
    \E i, j \in Slots :
        /\ PppoeIfs[i].refs > 0 /\ PppoeIfs[i].csock = CsockOf(i)
        /\ PppoeIfs[j].refs = 0 /\ PppoeIfs[j].csock = CsockOf(j)

\* Links l1 and l2 hold the same parent entry and listen for different
\* services on it.
ShareParent(l1, l2) ==
    /\ l1 # l2 /\ gLinks[l1].present /\ gLinks[l2].present
    /\ gLinks[l1].info.PIf # NULL /\ gLinks[l1].info.PIf = gLinks[l2].info.PIf
    /\ gLinks[l1].info.list # NoList /\ gLinks[l2].info.list # NoList
    /\ gLinks[l1].info.list.session # gLinks[l2].info.list.session

\* C18: no two occupied slots have the same node path; a link that acquires
\* a path which has an entry gets that entry with its refs incremented and
\* no node is created; two links that share an entry and listen for
\* different services have one listener entry each, and releasing one of
\* them decrements the parent's refs and removes only its own listener.
C18_RegistryDeduplicates ==
    /\ \A i, j \in Slots :
          (i # j /\ PppoeIfs[i].ifnodepath # << >>)
          => PppoeIfs[i].ifnodepath # PppoeIfs[j].ifnodepath
    /\ \A l \in LinkIds, i \in Slots, cf \in CreateOutcomes :
          (/\ ~crashed /\ gLinks[l].present /\ gLinks[l].info.PIf = NULL
           /\ gLinks[l].info.path # UndefinedStr \o <<":">>
           /\ PppoeIfs[i].ifnodepath = gLinks[l].info.path)
          => LET S == PppoeGetNode(Cur, l, cf)
             IN /\ ~S.crash
                /\ S.g[l].info.PIf = i
                /\ S.p = [PppoeIfs EXCEPT ![i].refs = @ + 1]
                /\ S.eth = gNgEtherLoaded
    /\ \A l1, l2 \in LinkIds :
          (~crashed /\ ShareParent(l1, l2))
          => LET i == gLinks[l1].info.PIf
                 s1 == gLinks[l1].info.list.session
                 s2 == gLinks[l2].info.list.session
                 S == PppoeShutdown(Cur, l1)
             IN /\ gLinks[l1].info.list.slot = i /\ gLinks[l2].info.list.slot = i
                /\ PppoeIfs[i].refs >= 2
                /\ PppoeIfs[i].list[s1] >= 1 /\ PppoeIfs[i].list[s2] >= 1
                /\ ~S.crash
                /\ S.p[i].refs = PppoeIfs[i].refs - 1
                /\ S.p[i].ifnodepath = PppoeIfs[i].ifnodepath
                /\ S.p[i].list[s1] = PppoeIfs[i].list[s1] - 1
                /\ S.p[i].list[s2] = PppoeIfs[i].list[s2]
                /\ S.g[l2].info = gLinks[l2].info

\* Two links share one entry with refs 2 and listen on it for two services
\* with one listener entry each.
C18_Witness ==
    /\ ~crashed
    /\ \E l1, l2 \in LinkIds :
          /\ ShareParent(l1, l2)
          /\ PppoeIfs[gLinks[l1].info.PIf].refs = 2
          /\ \A s \in Services : PppoeIfs[gLinks[l1].info.PIf].list[s] = 1

\* The connects and disconnects of hook listen-<s> on parent i among the
\* operations o, in order.
ListenHookOps(o, i, s) ==
    SelectSeq(o, LAMBDA e : /\ e.op \in {"NGM_CONNECT_listen", "NgFuncDisconnect_listen"}
                            /\ e.slot = i /\ e.arg = s)

\* Hook listen-<s> exists on parent i after a handler with result S, when it
\* existed before exactly if the entry existed: the last connect or
\* disconnect of the hook decides, a failed connect creates no hook.
ListenHookAfter(S, i, s) ==
    LET q == ListenHookOps(S.o, i, s)
    IN IF q = << >> THEN PppoeIfs[i].list[s] > 0
       ELSE q[Len(q)].op = "NGM_CONNECT_listen" /\ q[Len(q)].ok

\* After a handler with result S every listener entry has refs >= 1 and a
\* listen hook, and every listen hook has an entry.
EntriesMatchHooks(S) ==
    ~S.crash => \A i \in Slots, s \in Services :
                   /\ S.p[i].list[s] >= 0
                   /\ S.p[i].list[s] > 0 <=> ListenHookAfter(S, i, s)

\* C19: every listener entry has refs >= 1 and the hook listen-<service>
\* exists on the parent exactly while the entry exists: update, set iface,
\* set service and shutdown leave an entry where they leave the hook and
\* only there, also when the NGM_CONNECT or the NGM_PPPOE_LISTEN of a
\* subscription fails.
C19_EntryIffListenHook ==
    ~crashed =>
        \A l \in LinkIds :
            gLinks[l].present
            => /\ EntriesMatchHooks(LinkShutdown(Cur, l))
               /\ gLinks[l].stay
                  => /\ \A iface \in Ifaces, in \in RelistenInputs(l) :
                           EntriesMatchHooks(SetIfaceBody(Cur, l, iface, in.cf, in.lf))
                     /\ \A s \in Services, in \in RelistenInputs(l) :
                           EntriesMatchHooks(SetSessionBody(Cur, l, s, in.lf))
                     /\ \A en \in BOOLEAN :
                           \A in \in UpdateInputs(l, en) :
                              EntriesMatchHooks(PppoeNodeUpdate(
                                  [Cur EXCEPT !.g[l].incomingOpt = en], l, in.cf, in.lf))

\* The links that qualify for a frame on hook listen-<service> of parent
\* slot: not busy, on that parent, configured for exactly that service, with
\* the INCOMING option enabled.
Qualifying(slot, service) ==
    { k \in LinkIds : /\ gLinks[k].present
                      /\ gLinks[k].state = "DOWN"
                      /\ gLinks[k].info.PIf = slot
                      /\ gLinks[k].info.session = service
                      /\ gLinks[k].incomingOpt }

\* C20: a frame received on hook listen-<S> of parent P is accepted by the
\* lowest-index link that is not busy, has parent P, is configured for
\* service S exactly and has INCOMING enabled, or by a fresh instance of it
\* if it is a template; every graph operation and notification concerns that
\* link and no other link changes; without such a link the frame is dropped
\* and nothing changes.
C20_LowestQualifyingLinkAccepts ==
    \A slot \in Slots :
        (~crashed /\ PppoeIfs[slot].registered)
        => \A f \in FramesOn(slot) :
              ~Dropped(f)
              => LET S == ListenBody(Cur, slot, f)
                     q == Qualifying(slot, f.service)
                     k == CHOOSE a \in q : \A b \in q : a <= b
                     n == IF gLinks[k].tmpl
                          THEN CHOOSE a \in EmptyLinkSlots(Cur) :
                                  \A b \in EmptyLinkSlots(Cur) : a <= b
                          ELSE k
                 IN IF q = {}
                    THEN ~S.crash /\ S.g = gLinks /\ S.p = PppoeIfs /\ S.o = << >>
                    ELSE (gLinks[k].tmpl => EmptyLinkSlots(Cur) # {})
                         => /\ ~S.crash
                            /\ \A j \in LinkIds \ {n} : S.g[j] = gLinks[j]
                            /\ \A e \in 1 .. Len(S.o) : S.o[e].link = n
                            /\ f.fail = 0
                               => /\ S.g[n].present /\ ~S.g[n].tmpl
                                  /\ S.g[n].state = "CONNECTING"
                                  /\ S.g[n].info.incoming
                                  /\ S.g[n].info.PIf = slot
                                  /\ S.g[n].info.session = f.service
                                  /\ S.g[n].incomingOpt
                                  /\ CountOps(S.o, "PhysIncoming", n) = 1

\* Two links qualify for a frame on a registered parent, so that the index
\* decides, and gLinks has room for an instance.
C20_Witness ==
    /\ ~crashed
    /\ \E slot \in Slots, s \in Services :
          /\ PppoeIfs[slot].registered
          /\ Cardinality(Qualifying(slot, s)) >= 2
          /\ EmptyLinkSlots(Cur) # {}

\* The names of the operations o, in order.
OpNames(o) == [n \in 1 .. Len(o) |-> o[n].op]

\* Parent slot receives frame f and a link accepts it (gLinks has room for
\* the instance if that link is a template).
Accepting(slot, f) ==
    /\ ~crashed /\ PppoeIfs[slot].registered
    /\ f \in FramesOn(slot) /\ ~Dropped(f)
    /\ Qualifying(slot, f.service) # {}
    /\ gLinks[MinOf(Qualifying(slot, f.service))].tmpl => EmptyLinkSlots(Cur) # {}

\* C21: a successful incoming acceptance creates the tee on the session
\* hook, connects the socket node to the tee, sends OFFER, SERVICE and the
\* original frame and disconnects the socket-node hook, in this order; only
\* after all of them succeeded is the link CONNECTING and incoming with the
\* frame's source MAC, the parsed service and agent ids and the connect
\* timer started, and PhysIncoming is notified exactly once, as the last
\* step.
C21_AcceptanceOrder ==
    \A slot \in Slots, f \in Frames :
        Accepting(slot, f)
        => LET S == ListenBody(Cur, slot, f)
               n == ListenLink(Cur, slot, f)
           IN /\ ~S.crash
              /\ f.fail = 0
                 => /\ OpNames(S.o) = << "NGM_MKPEER_tee", "NGM_CONNECT_tee",
                                         "NGM_PPPOE_OFFER", "NGM_PPPOE_SERVICE",
                                         "NgSendData", "NgFuncDisconnect_sock",
                                         "PhysIncoming" >>
                    /\ \A e \in 1 .. Len(S.o) : S.o[e].ok /\ S.o[e].link = n
                    /\ S.g[n].state = "CONNECTING"
                    /\ S.g[n].info.incoming
                    /\ S.g[n].info.peeraddr = f.mac
                    /\ S.g[n].info.real_session = (IF f.tag # "" THEN f.tag ELSE f.service)
                    /\ S.g[n].info.agent_cid = f.cid
                    /\ S.g[n].info.agent_rid = f.rid
                    /\ S.g[n].info.connectTimer
              /\ f.fail # 0
                 => /\ CountOps(S.o, "PhysIncoming", n) = 0
                    /\ S.g[n].present => /\ S.g[n].state = gLinks[n].state
                                         /\ ~S.g[n].info.connectTimer

\* A link has accepted the PADI with Service-Name "gold" and the agent ids
\* circuit-A and remote-B.
C21_Witness ==
    \E l \in LinkIds :
        /\ ~crashed /\ gLinks[l].present /\ gLinks[l].state = "CONNECTING"
        /\ gLinks[l].info.incoming /\ gLinks[l].info.connectTimer
        /\ gLinks[l].info.peeraddr # ZeroMac
        /\ gLinks[l].info.real_session = "gold"
        /\ gLinks[l].info.agent_cid = "circuit-A"
        /\ gLinks[l].info.agent_rid = "remote-B"

\* C22: when a graph operation of the acceptance fails, the tee node is shut
\* down if it had been created, the selected link is not CONNECTING, its
\* timer is not started and PhysIncoming is not notified; a link that is not
\* static is torn down by LinkShutdown, and the refs of every parent and of
\* every listener entry are then what they were before the frame arrived.
C22_FailedAcceptance ==
    \A slot \in Slots, f \in Frames :
        (Accepting(slot, f) /\ f.fail # 0)
        => LET S == ListenBody(Cur, slot, f)
               n == ListenLink(Cur, slot, f)
               tee == \E e \in 1 .. Len(S.o) :
                         S.o[e].op = "NgFuncShutdownNode" /\ S.o[e].arg = "tee"
                                                          /\ S.o[e].link = n
           IN /\ ~S.crash
              /\ tee <=> f.fail >= 2
              /\ CountOps(S.o, "PhysIncoming", n) = 0
              /\ S.g[n].present
                 => /\ S.g[n].state = "DOWN"
                    /\ ~S.g[n].info.connectTimer
              /\ gLinks[n].present /\ gLinks[n].stay
                 => S.g = gLinks /\ S.p = PppoeIfs
              /\ ~(gLinks[n].present /\ gLinks[n].stay)
                 => /\ ~S.g[n].present
                    /\ \A i \in Slots :
                          /\ S.p[i].refs = PppoeIfs[i].refs
                          /\ S.p[i].list = PppoeIfs[i].list
                          /\ S.p[i].ifnodepath = PppoeIfs[i].ifnodepath

\* 1 if x, 0 otherwise.
One(x) == IF x THEN 1 ELSE 0

\* C22 as amended: when a graph operation of the acceptance fails, the tee
\* node is shut down if it had been created, the selected link is not
\* CONNECTING, its timer is not started and PhysIncoming is not notified; a
\* static link and the registry are unchanged; a link that is not static is
\* torn down by LinkShutdown: after an instance made for this frame the refs
\* of every parent and listener entry are what they were before the frame
\* arrived, after an instance that existed before they are lower by the
\* references this instance held.
C22_FailedAcceptanceReleasesLink ==
    \A slot \in Slots, f \in Frames :
        (Accepting(slot, f) /\ f.fail # 0)
        => LET S == ListenBody(Cur, slot, f)
               n == ListenLink(Cur, slot, f)
               tee == \E e \in 1 .. Len(S.o) :
                         S.o[e].op = "NgFuncShutdownNode" /\ S.o[e].arg = "tee"
                                                          /\ S.o[e].link = n
           IN /\ ~S.crash
              /\ tee <=> f.fail >= 2
              /\ CountOps(S.o, "PhysIncoming", n) = 0
              /\ \A j \in LinkIds \ {n} : S.g[j] = gLinks[j]
              /\ S.g[n].present
                 => /\ S.g[n].state = "DOWN"
                    /\ ~S.g[n].info.connectTimer
              /\ gLinks[n].present /\ gLinks[n].stay
                 => S.g = gLinks /\ S.p = PppoeIfs
              /\ ~gLinks[n].present
                 => /\ ~S.g[n].present
                    /\ \A i \in Slots :
                          /\ S.p[i].refs = PppoeIfs[i].refs
                          /\ S.p[i].list = PppoeIfs[i].list
                          /\ S.p[i].ifnodepath = PppoeIfs[i].ifnodepath
              /\ gLinks[n].present /\ ~gLinks[n].stay
                 => /\ ~S.g[n].present
                    /\ \A i \in Slots :
                          /\ S.p[i].refs =
                                PppoeIfs[i].refs - One(gLinks[n].info.PIf = i)
                          /\ \A s \in Services :
                                S.p[i].list[s] =
                                  PppoeIfs[i].list[s]
                                    - One(gLinks[n].info.list = [slot |-> i, session |-> s])

\* The link that accepts a frame is an instance that exists already, DOWN
\* after an earlier session, and a step of the acceptance fails.
C22_Witness ==
    \E slot \in Slots, f \in Frames :
        /\ Accepting(slot, f) /\ f.fail = 3
        /\ gLinks[ListenLink(Cur, slot, f)].present
        /\ ~gLinks[ListenLink(Cur, slot, f)].stay
        /\ PppoeIfs[slot].refs >= 2

----------------------------------------------------------------------------
\* Tag parsing of a received discovery frame (PppoeListenEvent, get_tag,
\* get_vs_tag).  A frame is the byte sequence after the PPPoE header, held in
\* response; offsets count from 0 at the first tag, so the byte at offset o
\* is buf[o + 1].  Strings are sequences of bytes.

MAX_SESSION == 64
PTT_SRV_NAME == 257          \* 0x0101 on the wire
PTT_VENDOR == 261            \* 0x0105 on the wire
VENDOR_BBF == 3561           \* 0x00000DE9
AGENT_SIZE == 64             \* sizeof(agent_cid), sizeof(agent_rid)
\* size_t arithmetic wraps.  Every length of a frame is below 2^16, so a
\* wrapped value lies above every length under any range from 2^17 on; the
\* range used here is the largest power of two TLC's integers hold.
SIZE_RANGE == 1073741824

Max2(a, b) == IF a >= b THEN a ELSE b
Min2(a, b) == IF a <= b THEN a ELSE b
Fill(n, v) == [i \in 1 .. n |-> v]
SizeT(x) == x % SIZE_RANGE

Rd(buf, o) == buf[o + 1]
U16(buf, o) == Rd(buf, o) * 256 + Rd(buf, o + 1)
U32(buf, o) == U16(buf, o) * 65536 + U16(buf, o + 2)
Bytes(buf, o, n) == [i \in 1 .. n |-> Rd(buf, o + i - 1)]

\* The length of the C string that starts a byte sequence.
RECURSIVE StrLen(_)
StrLen(s) == IF s = << >> \/ Head(s) = 0 THEN 0 ELSE 1 + StrLen(Tail(s))
CStr(s) == SubSeq(s, 1, StrLen(s))

\* The loop of get_tag over the tags that fit before end: the offset of the
\* first tag of type idx (-1 for NULL) and hi, one more than the highest
\* offset read.
TagWalk(buf, end, idx) ==
    LET RECURSIVE Walk(_, _)
        Walk(pt, hi) ==
            IF pt + 4 > end THEN [pt |-> -1, hi |-> hi]
            ELSE LET ptn == pt + 4 + U16(buf, pt + 2)
                     h == Max2(hi, pt + 4)
                 IN  IF ptn > end THEN [pt |-> -1, hi |-> h]
                     ELSE IF U16(buf, pt) = idx THEN [pt |-> pt, hi |-> h]
                     ELSE Walk(ptn, h)
    IN  Walk(0, 0)

\* A lookup that takes the end of the frame from the size of the buffer.
get_tag_whole_buffer(buf, length, idx) == TagWalk(buf, Len(buf), idx)

\* get_tag: end is the start of the tags plus ntohs(ph->length).
get_tag(buf, length, idx) == TagWalk(buf, length, idx)

\* get_vs_tag: the first vendor tag of at least 4 bytes whose vendor id is idx.
get_vs_tag(buf, length, idx) ==
    LET RECURSIVE Walk(_, _)
        Walk(pt, hi) ==
            IF pt + 4 > length THEN [pt |-> -1, hi |-> hi]
            ELSE LET tag_len == U16(buf, pt + 2)
                     ptn == pt + 4 + tag_len
                     h == Max2(hi, pt + 4)
                 IN  IF ptn > length THEN [pt |-> -1, hi |-> h]
                     ELSE IF U16(buf, pt) = PTT_VENDOR /\ tag_len >= 4
                     THEN IF U32(buf, pt + 4) = idx
                          THEN [pt |-> pt, hi |-> Max2(h, pt + 8)]
                          ELSE Walk(ptn, Max2(h, pt + 8))
                     ELSE Walk(ptn, h)
    IN  Walk(0, 0)

\* strncpy(dst, src, n): the bytes of src up to its NUL, padded with NULs to
\* n bytes, over the head of dst; no NUL is written after the n bytes.
strncpy(dst, src, n) ==
    [i \in 1 .. Len(dst) |->
        IF i > n THEN dst[i]
        ELSE IF i <= StrLen(src) THEN src[i] ELSE 0]

\* real_session: the len bytes memcpy takes from the tag's value, or the
\* name the listener was registered with.
RealSession(buf, length, session) ==
    LET t == get_tag(buf, length, PTT_SRV_NAME)
    IN  IF t.pt # -1
        THEN LET len == Min2(U16(buf, t.pt + 2), MAX_SESSION - 1)
             IN  [name |-> Bytes(buf, t.pt + 4, len),
                  hi |-> Max2(t.hi, t.pt + 4 + len)]
        ELSE [name |-> CStr(SubSeq(session, 1, Min2(Len(session), MAX_SESSION - 1))),
              hi |-> t.hi]

\* A byte read through const char *b and converted to size_t: a build with a
\* signed char sign-extends a byte of 128 or more.
CharToSize(byte, signed) ==
    IF signed /\ byte >= 128 THEN SizeT(byte - 256) ELSE byte

\* pos += 2 + len1, len1 being the length after it was cut to 63.
SubTlvAdvance(pos, raw, len1) == pos + 2 + len1

\* The scan of the vendor payload that starts at offset base and is len bytes
\* long: the agent ids, and hi, one more than the highest offset read.
ScanSubTlvs(buf, base, len, signed) ==
    LET RECURSIVE Scan(_, _, _, _)
        Scan(pos, cid, rid, hi) ==
            IF ~(pos + 1 <= len) THEN [cid |-> cid, rid |-> rid, hi |-> hi]
            ELSE LET raw == CharToSize(Rd(buf, base + pos + 1), signed)
                     h1 == Max2(hi, base + pos + 2)
                 IN  IF raw > SizeT(len - pos - 2)
                     THEN [cid |-> cid, rid |-> rid, hi |-> h1]
                     ELSE LET len1 == IF raw >= AGENT_SIZE THEN AGENT_SIZE - 1 ELSE raw
                              kind == Rd(buf, base + pos)
                              src == Bytes(buf, base + pos + 2, len1)
                              h2 == IF kind \in {1, 2}
                                    THEN Max2(h1, base + pos + 2 + Min2(len1, StrLen(src) + 1))
                                    ELSE h1
                          IN  Scan(SubTlvAdvance(pos, raw, len1),
                                   IF kind = 1 THEN strncpy(cid, src, len1) ELSE cid,
                                   IF kind = 2 THEN strncpy(rid, src, len1) ELSE rid,
                                   h2)
    IN  Scan(0, Fill(AGENT_SIZE, 0), Fill(AGENT_SIZE, 0), base)

\* What PppoeListenEvent reads out of a frame.  vs is the offset of the vendor
\* tag (-1 if none), vsEnd the end of that tag's payload, scanHi one more
\* than the highest offset the sub-TLV scan read.
ParseFrame(fr) ==
    LET rs == RealSession(fr.buf, fr.length, fr.session)
        vt == get_vs_tag(fr.buf, fr.length, VENDOR_BBF)
        len == U16(fr.buf, vt.pt + 2) - 4
        sc == ScanSubTlvs(fr.buf, vt.pt + 8, len, fr.signed)
    IN  [done |-> TRUE,
         real_session |-> rs.name,
         lookupHi |-> Max2(rs.hi, vt.hi),
         vs |-> vt.pt,
         vsEnd |-> IF vt.pt = -1 THEN 0 ELSE vt.pt + 8 + len,
         scanHi |-> IF vt.pt = -1 THEN 0 ELSE sc.hi,
         agent_cid |-> IF vt.pt = -1 THEN << >> ELSE CStr(sc.cid),
         agent_rid |-> IF vt.pt = -1 THEN << >> ELSE CStr(sc.rid)]

----------------------------------------------------------------------------
\* Frames to parse.  A frame is built from a list of tags, each a type and a
\* value, encoded as on the wire; the length field is chosen apart from the
\* bytes, so that it can cut a tag anywhere.  Behind the tags the buffer
\* holds PadLen bytes that are not part of the frame.

PTT_HOST_UNIQ == 259         \* 0x0103 on the wire
PadLen == 70

U16Enc(n) == <<n \div 256, n % 256>>
U32Enc(n) == U16Enc(n \div 65536) \o U16Enc(n % 65536)
EncTag(t) == U16Enc(t.type) \o U16Enc(Len(t.value)) \o t.value

RECURSIVE EncTags(_)
EncTags(ts) == IF ts = << >> THEN << >> ELSE EncTag(Head(ts)) \o EncTags(Tail(ts))

\* The offset just behind tag i of a list of tags.
RECURSIVE TagEnd(_, _)
TagEnd(ts, i) == IF i = 0 THEN 0 ELSE TagEnd(ts, i - 1) + 4 + Len(ts[i].value)

\* A sub-TLV of the vendor payload: sub_tag, sub_len, sub_value[sub_len].
SubValue(s) == Fill(s.len, IF s.kind = 1 THEN 99 ELSE IF s.kind = 2 THEN 114 ELSE 1)
EncSub(s) == <<s.kind, s.len>> \o SubValue(s)

RECURSIVE EncSubs(_)
EncSubs(ss) == IF ss = << >> THEN << >> ELSE EncSub(Head(ss)) \o EncSubs(Tail(ss))

SeqsUpTo(S, n) == UNION {[1 .. k -> S] : k \in 0 .. n}

ServiceTags ==
    {[type |-> PTT_SRV_NAME, value |-> v] :
        v \in {<< >>, <<97, 98>>, <<97, 0, 98>>, Fill(63, 120), Fill(64, 120), Fill(70, 120)}}
    \cup {[type |-> PTT_HOST_UNIQ, value |-> v] : v \in {<<7>>, Fill(100, 9)}}

SubTlvs == [kind : {1, 2, 3}, len : {0, 3, 63, 64, 130}]

\* What follows the well-formed sub-TLVs in the vendor payload: nothing, a
\* sub-TLV whose sub_len of 9 overshoots the 2 bytes that remain, or a
\* single byte.
Tails == {"none", "over", "byte"}
TailBytes(tail) ==
    IF tail = "over" THEN <<1, 9, 111, 111>>
    ELSE IF tail = "byte" THEN <<1>> ELSE << >>

VendorTag(ss, tail) ==
    [type |-> PTT_VENDOR, value |-> U32Enc(VENDOR_BBF) \o EncSubs(ss) \o TailBytes(tail)]

ListenerName == <<105, 115, 112>>

MkFrame(ts, length, ss, tail, signed, pad) ==
    [buf |-> EncTags(ts) \o Fill(PadLen, pad), length |-> length,
     session |-> ListenerName, signed |-> signed,
     tags |-> ts, subs |-> ss, tail |-> tail]

\* The lengths tried on a list of tags: the short ones, and those at or one
\* off the end of a tag.
Lengths(ts) ==
    {n \in 0 .. TagEnd(ts, Len(ts)) :
        \/ n <= 9
        \/ \E i \in 1 .. Len(ts) : n \in {TagEnd(ts, i) - 1, TagEnd(ts, i)}}

ServiceFrames ==
    UNION {{MkFrame(ts, n, << >>, "none", FALSE, 0) : n \in Lengths(ts)} :
              ts \in SeqsUpTo(ServiceTags, 2)}

VendorFrames ==
    UNION {{MkFrame(pre \o <<VendorTag(ss, tail)>>,
                    TagEnd(pre \o <<VendorTag(ss, tail)>>, Len(pre) + 1),
                    ss, tail, signed, pad) :
              pre \in {<< >>, <<[type |-> PTT_SRV_NAME, value |-> <<97, 98>>]>>},
              tail \in Tails, signed \in BOOLEAN, pad \in {0, 3, 200}} :
              ss \in SeqsUpTo(SubTlvs, 2)}

InitParse ==
    /\ InitLinks
    /\ response \in ServiceFrames \cup VendorFrames
    /\ parsed = NoParse

\* PppoeListenEvent up to the log line that follows the tag parsing.
ParseEvent ==
    /\ ~parsed.done
    /\ response.buf # << >>
    /\ parsed' = ParseFrame(response)
    /\ UNCHANGED <<gLinks, PppoeIfs, gNgEtherLoaded, crashed, nUp, nCmd, response>>

NextParse == ParseEvent

SpecParse == InitParse /\ [][NextParse]_vars

----------------------------------------------------------------------------
\* What a decoder of well-formed sub-TLVs yields for sub-tag k: the value of
\* the one sub-TLV of that kind, cut to 63 bytes.
SubsOfKind(ss, k) == {i \in 1 .. Len(ss) : ss[i].kind = k}
ExpectedId(ss, k) ==
    IF SubsOfKind(ss, k) = {} THEN << >>
    ELSE LET v == SubValue(ss[MinOf(SubsOfKind(ss, k))])
         IN  SubSeq(v, 1, Min2(Len(v), AGENT_SIZE - 1))
AtMostOnce(ss, k) == Cardinality(SubsOfKind(ss, k)) <= 1

\* C23: the tag lookups and the sub-TLV scan read no byte at or beyond the
\* end the length field declares, the scan reads no byte outside the vendor
\* tag's payload, and a sub_len that overshoots the rest of the payload stops
\* the scan with the agent ids of the earlier sub-TLVs kept.
C23_ReadsStayInside ==
    parsed.done =>
        /\ parsed.lookupHi <= response.length
        /\ parsed.vs # -1 =>
              /\ parsed.scanHi <= response.length
              /\ parsed.scanHi <= parsed.vsEnd
        /\ (parsed.vs # -1 /\ response.tail = "over") =>
              /\ AtMostOnce(response.subs, 1) => parsed.agent_cid = ExpectedId(response.subs, 1)
              /\ AtMostOnce(response.subs, 2) => parsed.agent_rid = ExpectedId(response.subs, 2)

----------------------------------------------------------------------------
\* The service the frame asks for: the value, cut to 63 bytes, of the first
\* Service-Name tag that ends within the length field (the tags before it
\* end earlier still), or the listener's name.
ExpectedService(fr) ==
    LET fit == {i \in 1 .. Len(fr.tags) :
                   fr.tags[i].type = PTT_SRV_NAME /\ TagEnd(fr.tags, i) <= fr.length}
    IN  IF fit = {} THEN fr.session
        ELSE LET v == fr.tags[MinOf(fit)].value
             IN  SubSeq(v, 1, Min2(Len(v), MAX_SESSION - 1))

----------------------------------------------------------------------------
\* C25: for a vendor payload of well-formed sub-TLVs, agent_cid is the first
\* min(sub_len, 63) bytes of the value of sub-tag 1 and agent_rid those of
\* sub-tag 2, whatever the lengths of the sub-TLVs before them.
C25_AgentIdsDecoded ==
    (parsed.done /\ parsed.vs # -1 /\ response.tail = "none") =>
        /\ AtMostOnce(response.subs, 1) =>
              parsed.agent_cid = ExpectedId(response.subs, 1)
        /\ AtMostOnce(response.subs, 2) =>
              parsed.agent_rid = ExpectedId(response.subs, 2)

----------------------------------------------------------------------------
\* C26: a SETMAXP reply dispatched to a link that is not DOWN sets mp_reply
\* exactly when the link's max_payload is nonzero and equal to the replied
\* value, changing nothing else; a reply with another value, or one that
\* comes when max_payload is 0, changes no field of any link.
C26_SetMaxpReply ==
    \A slot \in Slots, m \in CtrlMsgs :
        (/\ ~crashed /\ PppoeIfs[slot].registered
         /\ m.rx = "ok" /\ m.cmd = "SETMAXP"
         /\ CtrlLink(Cur, slot, m) # NULL)
        => LET l == CtrlLink(Cur, slot, m)
               S == CtrlBody(Cur, slot, m)
           IN /\ gLinks[l].state # "DOWN"
              /\ ~S.crash /\ S.p = PppoeIfs /\ S.o = << >>
              /\ IF gLinks[l].info.max_payload # 0 /\ gLinks[l].info.max_payload = m.data
                 THEN S.g = [gLinks EXCEPT ![l].info.mp_reply = TRUE]
                 ELSE S.g = gLinks

\* A link in a session has max_payload 1500 and an echo of 1500 has set
\* mp_reply, while a reply of 1492 can still arrive for it; another link in
\* a session has max_payload 0.
C26_Witness ==
    /\ \E slot \in Slots, m \in CtrlMsgs :
          /\ ~crashed /\ PppoeIfs[slot].registered
          /\ m.rx = "ok" /\ m.cmd = "SETMAXP" /\ m.data = 1492
          /\ CtrlLink(Cur, slot, m) # NULL
          /\ gLinks[CtrlLink(Cur, slot, m)].info.max_payload = 1500
          /\ gLinks[CtrlLink(Cur, slot, m)].info.mp_reply
    /\ \E slot \in Slots, m \in CtrlMsgs :
          /\ ~crashed /\ PppoeIfs[slot].registered
          /\ m.rx = "ok" /\ m.cmd = "SETMAXP"
          /\ CtrlLink(Cur, slot, m) # NULL
          /\ gLinks[CtrlLink(Cur, slot, m)].info.max_payload = 0

----------------------------------------------------------------------------
PPPOE_MTU == 1492

\* The link's own mtu and mru settings (l->conf.mtu, l->conf.mru) belong to
\* the link framework; they are inputs here.
ConfValues == {1400, 1500}

PppoeGetMtu(k, conf, confMtu) ==
    IF k.info.max_payload > 0 /\ k.info.mp_reply THEN k.info.max_payload
    ELSE IF conf = 0 THEN PPPOE_MTU ELSE confMtu

PppoeGetMru(k, conf, confMru) ==
    IF k.info.max_payload > 0 /\ k.info.mp_reply THEN k.info.max_payload
    ELSE IF conf = 0 THEN PPPOE_MRU ELSE confMru

\* In this step the peer's SETMAXP that echoes max_payload sets mp_reply of
\* link l, which is in a session.
EchoStep(l) ==
    /\ gLinks[l].present /\ gLinks[l].state # "DOWN"
    /\ gLinks[l].info.max_payload > 0
    /\ gLinks'[l] = [gLinks[l] EXCEPT !.info.mp_reply = TRUE]

\* mp_reply of link l stays set: the session goes on and max_payload is the
\* value it was.
EchoKept(l) ==
    /\ gLinks[l].present /\ gLinks[l].info.mp_reply
    /\ gLinks[l].state # "DOWN" /\ gLinks'[l].state # "DOWN"
    /\ gLinks'[l].info.max_payload = gLinks[l].info.max_payload

\* MTU and MRU reporting on link k when the peer echoed max_payload exactly
\* if echoed is true.
ReportsFor(k, echoed) ==
    \A conf \in {0, 1}, c \in ConfValues :
        /\ PppoeGetMtu(k, conf, c) =
              IF echoed THEN k.info.max_payload ELSE IF conf = 0 THEN 1492 ELSE c
        /\ PppoeGetMru(k, conf, c) =
              IF echoed THEN k.info.max_payload ELSE IF conf = 0 THEN 1492 ELSE c

\* C27: mp_reply is true only if the peer has, in the current session,
\* replied SETMAXP with the value max_payload has now: in every step a link
\* whose mp_reply is true afterwards either got the echo in this step or had
\* mp_reply true before with the session going on and max_payload unchanged,
\* and MTU/MRU reporting returns max_payload exactly for such a link.
C27_ReplyOnlyForEchoedValue ==
    [][\A l \in LinkIds :
          /\ (gLinks'[l].present /\ gLinks'[l].info.mp_reply)
                => (EchoStep(l) \/ EchoKept(l))
          /\ gLinks'[l].present
                => ReportsFor(gLinks'[l], gLinks'[l].info.mp_reply /\ (EchoStep(l) \/ EchoKept(l)))]_vars

----------------------------------------------------------------------------
\* The state after open() and then close() on link l, the open having the
\* outcome inp.
OpenThenClose(l, inp) ==
    PppoeCloseBody(PppoeOpenBody(Cur, l, inp.cf, inp.fail, inp.sf), l)

\* open() has returned on link l.
OpenReturns(l, inp) == ~PppoeOpenBody(Cur, l, inp.cf, inp.fail, inp.sf).crash

\* C28 as stated: open() followed by close() on a DOWN link restores the
\* state, the opened flag, real_service, the peer address, the agent ids,
\* mp_reply, the parent handle and the refs of every parent.
C28_OpenCloseRestores ==
    \A l \in LinkIds :
        (~crashed /\ gLinks[l].present /\ ~gLinks[l].tmpl /\ gLinks[l].state = "DOWN")
        => \A inp \in OpenInputs(l) :
              OpenReturns(l, inp) =>
                 LET S == OpenThenClose(l, inp)
                     a == gLinks[l]
                     b == S.g[l]
                 IN /\ ~S.crash
                    /\ b.state = a.state
                    /\ b.info.opened = a.info.opened
                    /\ b.info.real_session = a.info.real_session
                    /\ b.info.peeraddr = a.info.peeraddr
                    /\ b.info.agent_cid = a.info.agent_cid
                    /\ b.info.agent_rid = a.info.agent_rid
                    /\ b.info.mp_reply = a.info.mp_reply
                    /\ b.info.PIf = a.info.PIf
                    /\ \A i \in Slots : S.p[i].refs = PppoeIfs[i].refs

\* C28 amended: open() followed by close() on a DOWN link leaves the link
\* DOWN with opened false and with the peer address, agent ids and mp_reply
\* it had; real_service is empty if the open started a session and is what
\* it was if the open failed; a parent the link held is still held with the
\* same refs, and a parent the open acquired stays acquired, its refs one
\* higher than before the open.
C28_OpenCloseKeepsParent ==
    \A l \in LinkIds :
        (~crashed /\ gLinks[l].present /\ ~gLinks[l].tmpl /\ gLinks[l].state = "DOWN")
        => \A inp \in OpenInputs(l) :
              OpenReturns(l, inp) =>
                 LET O == PppoeOpenBody(Cur, l, inp.cf, inp.fail, inp.sf)
                     S == OpenThenClose(l, inp)
                     a == gLinks[l]
                     b == S.g[l]
                 IN /\ ~S.crash
                    /\ b.state = "DOWN"
                    /\ ~b.info.opened
                    /\ b.info.real_session =
                          IF O.g[l].state # "DOWN" THEN "" ELSE a.info.real_session
                    /\ b.info.peeraddr = a.info.peeraddr
                    /\ b.info.agent_cid = a.info.agent_cid
                    /\ b.info.agent_rid = a.info.agent_rid
                    /\ b.info.mp_reply = a.info.mp_reply
                    /\ a.info.PIf # NULL => b.info.PIf = a.info.PIf
                    /\ O.g[l].state # "DOWN" => b.info.PIf # NULL
                    /\ \A i \in Slots :
                          S.p[i].refs = PppoeIfs[i].refs
                                          + One(a.info.PIf = NULL /\ b.info.PIf = i)

\* A link that never had a listener is DOWN after open() and close(): opened
\* is false, real_service is empty, and it holds the parent the open
\* acquired.
C28_Witness ==
    \E l \in LinkIds :
        /\ gLinks[l].present /\ gLinks[l].stay /\ gLinks[l].state = "DOWN"
        /\ ~gLinks[l].incomingOpt /\ gLinks[l].info.list = NoList
        /\ ~gLinks[l].info.opened
        /\ gLinks[l].info.real_session = ""
        /\ gLinks[l].info.PIf # NULL
        /\ PppoeIfs[gLinks[l].info.PIf].refs = 1

----------------------------------------------------------------------------
\* set iface applied to link l with every graph operation succeeding.
SetIfaceOk(S, l, iface) == SetIfaceBody(S, l, iface, "ok", 0)

\* The refs of the listener entry a handle names (0 for no handle).
ListRefs(S, h) == IF h = NoList THEN 0 ELSE S.p[h.slot].list[h.session]

\* C29: the same set iface applied a second time changes neither the parent
\* slot the link references, nor that parent's refs, nor the link's listener
\* service, nor that entry's refs, graph operations succeeding.
C29_SetIfaceTwice ==
    \A l \in LinkIds, iface \in Ifaces :
        (~crashed /\ gLinks[l].present /\ gLinks[l].stay)
        => LET S1 == SetIfaceOk(Cur, l, iface)
               S2 == SetIfaceOk(S1, l, iface)
           IN ~S1.crash =>
                 /\ ~S2.crash
                 /\ S2.g[l].info.PIf = S1.g[l].info.PIf
                 /\ S2.g[l].info.list = S1.g[l].info.list
                 /\ \A i \in Slots : S2.p[i].refs = S1.p[i].refs
                 /\ ListRefs(S2, S2.g[l].info.list) = ListRefs(S1, S1.g[l].info.list)

\* Two set commands have been applied, and a link with a listener shares its
\* parent with another link; the set iface that link was given last, applied
\* again, changes no link.
C29_Witness ==
    /\ nCmd >= 2
    /\ \E l \in LinkIds :
          /\ gLinks[l].present /\ gLinks[l].stay
          /\ gLinks[l].info.list # NoList /\ gLinks[l].info.iface \in Ifaces
          /\ PppoeIfs[gLinks[l].info.PIf].refs >= 2
          /\ SetIfaceOk(Cur, l, gLinks[l].info.iface).g = gLinks

----------------------------------------------------------------------------
\* C30: a link that holds a listener handle holds a parent handle, the entry
\* is in that parent's listener set, and the entry's service is the link's
\* configured service; set service on a link with a listener takes the link
\* off the old entry, which is removed when its refs reach 0, and puts it on
\* the entry of the new name.
C30_ListenerFollowsService ==
    /\ \A l \in LinkIds :
          (gLinks[l].present /\ gLinks[l].info.list # NoList)
          => /\ gLinks[l].info.PIf # NULL
             /\ gLinks[l].info.list.slot = gLinks[l].info.PIf
             /\ PppoeIfs[gLinks[l].info.PIf].list[gLinks[l].info.list.session] >= 1
             /\ gLinks[l].info.list.session = gLinks[l].info.session
    /\ \A l \in LinkIds, s \in Services, lf \in 0 .. 2 :
          (/\ ~crashed /\ gLinks[l].present /\ gLinks[l].stay
           /\ gLinks[l].info.list # NoList /\ s # gLinks[l].info.session)
          => LET S == SetSessionBody(Cur, l, s, lf)
                 i == gLinks[l].info.PIf
                 old == gLinks[l].info.session
             IN /\ ~S.crash
                /\ S.g[l].info.PIf = i
                /\ S.g[l].info.list = [slot |-> i, session |-> s]
                /\ S.p[i].list[old] = PppoeIfs[i].list[old] - 1
                /\ S.p[i].list[s] = PppoeIfs[i].list[s] + 1

\* A configurable link listens for "isp", a name only set service gives, on
\* a parent where another link still holds the entry of the default name.
C30_Witness ==
    /\ nCmd >= 2
    /\ \E l \in LinkIds, l2 \in LinkIds :
          /\ l # l2
          /\ gLinks[l].present /\ gLinks[l].stay
          /\ gLinks[l].info.list # NoList
          /\ gLinks[l].info.list.session = "isp"
          /\ PppoeIfs[gLinks[l].info.PIf].list["isp"] = 1
          /\ gLinks[l2].present
          /\ gLinks[l2].info.list = [slot |-> gLinks[l].info.PIf, session |-> "*"]

----------------------------------------------------------------------------
\* The hook name of a control message (PppoeCtrlReadEvent): names are
\* sequences of characters, the session hooks of this process are named
\* "mpd<pid>-<link id>".

gPid == <<"7">>
HookPrefix == <<"m", "p", "d">> \o gPid \o <<"-">>
ListenPrefix == <<"l", "i", "s", "t", "e", "n", "-">>
Digits == {"0", "1", "2", "3", "4", "5", "6", "7", "8", "9"}
Spaces == {" ", "\t"}

\* strncmp(s, p, strlen(p)) == 0
HasPrefix(s, p) == Len(s) >= Len(p) /\ SubSeq(s, 1, Len(p)) = p

DigitVal(c) == CHOOSE v \in 0 .. 9 : ToString(v) = c

\* The value of a run of decimal digits.
RECURSIVE DecVal(_)
DecVal(s) ==
    IF s = << >> THEN 0
    ELSE DecVal(SubSeq(s, 1, Len(s) - 1)) * 10 + DigitVal(s[Len(s)])

\* The length of the longest prefix of s made of characters of C.
RECURSIVE Span(_, _)
Span(s, C) == IF s = << >> \/ Head(s) \notin C THEN 0 ELSE 1 + Span(Tail(s), C)

\* strtol(s, &rest, 10): white space is skipped, a sign is taken, then the
\* digits; with no digit the value is 0 and rest is s itself.
strtol(s) ==
    LET ws == Span(s, Spaces)
        s1 == SubSeq(s, ws + 1, Len(s))
        sg == IF s1 # << >> /\ Head(s1) \in {"+", "-"} THEN 1 ELSE 0
        s2 == SubSeq(s1, sg + 1, Len(s1))
        nd == Span(s2, Digits)
    IN  IF nd = 0 THEN [val |-> 0, rest |-> s]
        ELSE [val |-> IF sg = 1 /\ Head(s1) = "-" THEN 0 - DecVal(SubSeq(s2, 1, nd))
                      ELSE DecVal(SubSeq(s2, 1, nd)),
              rest |-> SubSeq(s2, nd + 1, Len(s2))]

\* What the checks on the hook name make of it: a listen hook, a hook that
\* is dropped, the hook of gLinks[id], or an id that is no index of gLinks
\* ("wild": gLinks[id] is read outside the array).
HookOf(name) ==
    IF HasPrefix(name, ListenPrefix) THEN [kind |-> "listen", id |-> 0]
    ELSE IF ~HasPrefix(name, HookPrefix) THEN [kind |-> "other", id |-> 0]
    ELSE LET r == strtol(SubSeq(name, Len(HookPrefix) + 1, Len(name)))
         IN  IF r.rest # << >> THEN [kind |-> "other", id |-> 0]
             ELSE IF r.val \in LinkIds THEN [kind |-> "mpd", id |-> r.val]
             ELSE [kind |-> "wild", id |-> r.val]

\* The read of gLinks[id] outside the array finds a null pointer, and the
\* message is dropped, or something else, and the process dies on it.
WildOutcomes == {"drop", "crash"}

\* PppoeCtrlReadEvent on a message of a routed command whose hook is name.
CtrlNamedBody(S, slot, cmd, name, data, wild) ==
    LET h == HookOf(name)
    IN  IF h.kind = "wild"
        THEN IF wild = "crash" THEN Crash(S) ELSE S
        ELSE CtrlBody(S, slot, [rx |-> "ok", cmd |-> cmd, hook |-> h, data |-> data])

Suffixes ==
    { << >>, <<"0">>, <<"1">>, <<"2">>, <<"9">>, <<"0", "1">>, <<"1", "2">>,
      <<" ", "1">>, <<"\t", "0">>, <<"+", "1">>, <<"-", "1">>, <<"-", "0">>,
      <<"1", " ">>, <<"1", "x">>, <<"x">>, <<" ">>, <<"+">>, <<"-">>,
      <<"0", "x", "1">>, <<"1", "-", "1">> }

HookNames ==
    { HookPrefix \o s : s \in Suffixes }
    \cup { ListenPrefix \o <<"i", "s", "p">>,
           <<"m", "p", "d", "8", "-", "0">>,
           <<"m", "p", "d", "7">>,
           <<"o", "r", "p", "h", "a", "n", "s">>,
           << >> }

NamedInputs ==
    [cmd : {"SUCCESS", "FAIL", "CLOSE"}, name : HookNames, data : {0},
     wild : WildOutcomes]
    \cup [cmd : {"SETMAXP"}, name : HookNames, data : MaxpReplies,
          wild : WildOutcomes]

CtrlReadNamed(slot, i) ==
    /\ ~crashed
    /\ UNCHANGED nCmd
    /\ PppoeIfs[slot].registered
    /\ Finish(CtrlNamedBody(Cur, slot, i.cmd, i.name, i.data, i.wild))

\* The program with its control messages given by hook name: links are
\* configured, opened and closed, and messages arrive.
NextHook ==
    \/ \E l \in LinkIds : \E i \in OpenInputs(l) : PppoeOpen(l, i.cf, i.fail, i.sf)
    \/ \E l \in LinkIds : PppoeClose(l)
    \/ \E l \in LinkIds, iface \in Ifaces : \E i \in RelistenInputs(l) :
          SetIface(l, iface, i.cf, i.lf)
    \/ \E slot \in Slots, i \in NamedInputs : CtrlReadNamed(slot, i)

SpecHook == Init /\ [][NextHook]_vars

\* The name is "mpd<pid>-" followed by one or more decimal digits.
WellFormed(name) ==
    /\ HasPrefix(name, HookPrefix)
    /\ Len(name) > Len(HookPrefix)
    /\ \A n \in Len(HookPrefix) + 1 .. Len(name) : name[n] \in Digits

Suffix(name) == SubSeq(name, Len(HookPrefix) + 1, Len(name))

\* C31: a control message reaches link N only if its hook name is the
\* prefix "mpd<pid>-" followed by one or more decimal digits of value N, N
\* a valid link index; a message with any other hook name changes no link
\* and no registry entry, notifies nothing and does not end the process.
C31_OnlyWellFormedHooksDispatch ==
    \A slot \in Slots, i \in NamedInputs :
        (~crashed /\ PppoeIfs[slot].registered)
        => LET S == CtrlNamedBody(Cur, slot, i.cmd, i.name, i.data, i.wild)
               ok == /\ WellFormed(i.name)
                     /\ DecVal(Suffix(i.name)) \in LinkIds
                     /\ gLinks[DecVal(Suffix(i.name))].present
           IN /\ ~ok => (~S.crash /\ S.g = gLinks /\ S.p = PppoeIfs /\ S.o = << >>)
              /\ ok => \A l \in LinkIds :
                          l # DecVal(Suffix(i.name)) => S.g[l] = gLinks[l]

----------------------------------------------------------------------------
\* C32: a link whose state is not DOWN holds a parent handle to an occupied
\* registry slot, refs above 0 and both sockets open and registered, so that
\* close, timer expiry, FAIL and CLOSE can disconnect the session hook.
C32_SessionHoldsParent ==
    \A l \in LinkIds :
        (gLinks[l].present /\ gLinks[l].state # "DOWN")
        => /\ gLinks[l].info.PIf # NULL
           /\ PppoeIfs[gLinks[l].info.PIf].refs > 0
           /\ PppoeIfs[gLinks[l].info.PIf].registered
           /\ PppoeIfs[gLinks[l].info.PIf].csock >= 0
           /\ PppoeIfs[gLinks[l].info.PIf].dsock >= 0

----------------------------------------------------------------------------
\* C33: a link that holds a parent handle references the registry entry
\* whose node path is the link's current parent path, and an open() that
\* starts a session on a DOWN link starts it on the parent of that path.
C33_ParentMatchesPath ==
    /\ \A l \in LinkIds :
          (gLinks[l].present /\ gLinks[l].info.PIf # NULL)
          => PppoeIfs[gLinks[l].info.PIf].ifnodepath = gLinks[l].info.path
    /\ \A l \in LinkIds :
          (~crashed /\ gLinks[l].present /\ ~gLinks[l].tmpl /\ gLinks[l].state = "DOWN")
          => \A inp \in OpenInputs(l) :
                LET S == PppoeOpenBody(Cur, l, inp.cf, inp.fail, inp.sf)
                IN (~S.crash /\ S.g[l].state # "DOWN")
                   => S.p[S.g[l].info.PIf].ifnodepath = gLinks[l].info.path

----------------------------------------------------------------------------
\* The link a frame accepted on parent slot is taken from: the link itself,
\* or the template the new instance is copied from.
AcceptSource(slot, f) == MinOf(Qualifying(slot, f.service))

\* The state after the acceptance of f and the SUCCESS of its session, with
\* no call in between; the operations are those of the SUCCESS alone.
AcceptThenSuccess(slot, f) ==
    LET S1 == ListenBody(Cur, slot, f)
    IN CtrlBody([S1 EXCEPT !.o = << >>], slot, SuccessFor(ListenLink(Cur, slot, f)))

OpenedFollowsCalls ==
    \A l \in LinkIds :
        (gLinks[l].present /\ gLinks'[l].present)
        => /\ (gLinks'[l].info.opened /\ ~gLinks[l].info.opened)
              => \E i \in OpenInputs(l) :
                    gLinks' = PppoeOpenBody(Cur, l, i.cf, i.fail, i.sf).g
           /\ (~gLinks'[l].info.opened /\ gLinks[l].info.opened)
              => gLinks' = PppoeCloseBody(Cur, l).g

\* The acceptance leaves opened as the accepting link, or the template of
\* the new instance, has it, and the SUCCESS that follows goes by it: UP with
\* one PhysUp if it is set, READY without PhysUp if not.  The end of a
\* session by FAIL, CLOSE or timeout leaves opened as it is.
OpenedDecidesSuccess ==
    /\ \A slot \in Slots : \A f \in FramesOn(slot) :
          (Accepting(slot, f) /\ f.fail = 0)
          => LET l == ListenLink(Cur, slot, f)
                 S1 == ListenBody(Cur, slot, f)
                 S == AcceptThenSuccess(slot, f)
                 was == gLinks[AcceptSource(slot, f)].info.opened
             IN /\ S1.g[l].info.opened = was
                /\ was => /\ S.g[l].state = "UP"
                          /\ CountOps(S.o, "PhysUp", l) = 1
                /\ ~was => /\ S.g[l].state = "READY"
                           /\ CountOps(S.o, "PhysUp", l) = 0
    /\ \A l \in LinkIds :
          (~crashed /\ gLinks[l].present /\ gLinks[l].state # "DOWN")
          => \A S \in { OnFail(Cur, l), OnClose(Cur, l), TimeoutBody(Cur, l) } :
                (~S.crash /\ S.g[l].present)
                => /\ S.g[l].state = "DOWN"
                   /\ S.g[l].info.opened = gLinks[l].info.opened

----------------------------------------------------------------------------
\* The connect timer is a one-shot timer of the event loop: once armed it
\* expires and PppoeConnectTimeout runs, unless it is stopped before.
TimerFires == \A l \in LinkIds : WF_vars(PppoeConnectTimeout(l))

SpecLive == Init /\ [][Next]_vars /\ TimerFires

\* Link l has a session being set up; link l has none, or is gone.
InSetup(l) == gLinks[l].present /\ gLinks[l].state \in {"CONNECTING", "READY"}

Settled(l) == ~gLinks[l].present \/ gLinks[l].state \in {"UP", "DOWN"}

\* C35: no link stays CONNECTING or READY forever: with an armed connect
\* timer firing unless it is stopped, every link that is CONNECTING or READY
\* is UP or DOWN (or shut down) at some later time, whatever else happens
\* or fails to happen.
C35_NoLinkStaysInSetup == \A l \in LinkIds : InSetup(l) ~> Settled(l)

====
